---- MODULE Spec2Model ----
(***************************************************************************)
(* Jira -> Discord notifier: the change detectors (src/jira/issues.py,     *)
(* src/jira/statistics.py), the check_* dispatchers (src/app.py), the      *)
(* notification ledger and the TTL cache (src/jira/core.py).               *)
(*                                                                         *)
(* Time is counted in minutes and the clock advances by whole days, so a   *)
(* change is either inside the hour window of the run that follows it or   *)
(* a day old.  Composite ledger keys, which the code builds with f-strings *)
(* ("<issue>-<id>", "<issue>-reopen-<time>"), are tuples of their parts.   *)
(* The remote tracker holds the bug P-1 and the task P-2 of one watched    *)
(* project; the server may answer a search with fewer issues per page than *)
(* asked for.                                                              *)
(***************************************************************************)
EXTENDS Integers, Sequences, FiniteSets, TLC

VARIABLES
    now,        \* wall clock, minutes
    configured, \* JiraCore.is_configured()
    settings,   \* global_notification_settings: the enabled notification types
    watched,    \* project_manager.get_watched_project_keys()
    hist,       \* remote: changelog histories of every issue
    comments,   \* remote: comments of every issue
    recent,     \* remote: issue keys, most recently updated first
    ledger,     \* JiraCore._notification_history
    file,       \* notification_history.json
    cache,      \* JiraCore._issues_cache with JiraCore._cache_expiry
    runs,       \* the check run of every thread
    sent,       \* history: successes returned by the sink per <<category, key>>
    lastClean,  \* history: the check whose last run delivered all it detected
    note,       \* history: what the last step did
    saveFailed, \* history: some write of the history file failed
    marked,     \* history: the <<category, key>> pairs mark_issue_notified was called with
    boots,      \* history: how many times the process has been started
    mhist,      \* matcher input: one bug's changelog histories, or a batch of bugs
    mres        \* matcher output

vars == <<now, configured, settings, watched, hist, comments, recent, ledger,
          file, cache, runs, sent, lastClean, note, saveFailed, marked, boots, mhist,
          mres>>

sysvars == <<now, configured, settings, watched, hist, comments, recent, ledger,
             file, cache, runs, sent, lastClean, note, saveFailed, marked, boots>>

-----------------------------------------------------------------------------
(* Bounds of the model *)

\* the clock stops at this day
MaxDay == 1
\* status changes and comments the remote takes in all
MaxEvents == 2
\* changelog entries of one issue
MaxHist == 4
\* issues the server returns per page, at most
MaxPage == 1
\* changelog entries of a matcher input
MaxMatchLen == 3
\* process lifetimes
MaxBoots == 2
\* the clock of the cache scenarios stops at this minute
MaxCacheTime == 15
\* bugs of one batch
MaxBatch == 2
\* changelog entries of a bug of a batch
MaxBatchHist == 2
\* projects of the groups of a statistics request
MaxProjects == 2
\* issues of all the projects of a statistics request
MaxStatIssues == 3
\* issues of three projects merged two by two
MaxMergeIssues == 4
\* project keys of the groups of a multi-group request
MaxSelected == 11
\* seconds an operation is followed while it waits for an answer
MaxWait == 12
\* the clock of the reopen window scenarios stops at this day
MaxWindowDay == 2
\* issues of a project whose statistics are counted
MaxCountIssues == 4
\* the largest issue count the remote reports for a participant
MaxIssueCount == 2
\* the largest max_results of a search answered with arbitrary pages
MaxLimit == 3
\* the most issues in one such page
MaxPageLen == 2
\* the largest total such a page reports
MaxTotal == 3
\* the most projects in one group of the statistics pages
MaxGroupLen == 3
\* the most participants one project's statistics carry
MaxGroupParticipants == 2
\* the most issues a project of the two statistics searches has
MaxRemoteIssues == 3
\* the most issues the first statistics search returns (500 in the code)
StatsLimit == 2
\* the most bugs the reopened-bug search returns (200 in the code)
BugsLimit == 2
\* the minutes before midnight at which the evening begins
EveningMinutes == 20
\* the minutes between two looks at the clock around midnight
StepMinutes == 10

(* Program constants *)

DayMinutes == 1440
HourMinutes == 60
overdue_expiry == 15
default_max_results == 50
reopen_max_results == 200
page_size == 100
scheduled_days == 3
manual_days == 1
bug_notification_params == 2
bug_notification_args == 3
project_limit == 10
project_seconds == 15
total_seconds == 30
issue_timeout == 10

Absent == "<absent>"

-----------------------------------------------------------------------------
(* Strings: str.lower() and the `in` substring test *)

Chars(s) ==
    CASE s = "To Do" -> <<"T", "o", " ", "D", "o">>
      [] s = "In Review" -> <<"I", "n", " ", "R", "e", "v", "i", "e", "w">>
      [] s = "In Progress" -> <<"I", "n", " ", "P", "r", "o", "g", "r", "e", "s", "s">>
      [] s = "Open" -> <<"O", "p", "e", "n">>
      [] s = "InReview" -> <<"I", "n", "R", "e", "v", "i", "e", "w">>
      [] s = "Done" -> <<"D", "o", "n", "e">>
      [] s = "ToDo" -> <<"T", "o", "D", "o">>
      [] s = "InProgress" -> <<"I", "n", "P", "r", "o", "g", "r", "e", "s", "s">>
      [] s = "IN REVIEW" -> <<"I", "N", " ", "R", "E", "V", "I", "E", "W">>
      [] s = "reviewing" -> <<"r", "e", "v", "i", "e", "w", "i", "n", "g">>
      [] s = "review" -> <<"r", "e", "v", "i", "e", "w">>
      [] s = "in review" -> <<"i", "n", " ", "r", "e", "v", "i", "e", "w">>
      [] s = "under review" -> <<"u", "n", "d", "e", "r", " ", "r", "e", "v", "i", "e", "w">>
      [] s = "done" -> <<"d", "o", "n", "e">>
      [] s = "closed" -> <<"c", "l", "o", "s", "e", "d">>
      [] s = "todo" -> <<"t", "o", "d", "o">>
      [] s = "to do" -> <<"t", "o", " ", "d", "o">>
      [] s = "in progress" -> <<"i", "n", " ", "p", "r", "o", "g", "r", "e", "s", "s">>
      [] s = "reopened" -> <<"r", "e", "o", "p", "e", "n", "e", "d">>
      [] s = "request" -> <<"r", "e", "q", "u", "e", "s", "t">>
      [] s = "backlog" -> <<"b", "a", "c", "k", "l", "o", "g">>
      [] s = "open" -> <<"o", "p", "e", "n">>
      [] s = "Bug" -> <<"B", "u", "g">>
      [] s = "Task" -> <<"T", "a", "s", "k">>
      [] s = "bug" -> <<"b", "u", "g">>
      [] s = "Resolved" -> <<"R", "e", "s", "o", "l", "v", "e", "d">>
      [] s = "resolved" -> <<"r", "e", "s", "o", "l", "v", "e", "d">>
      [] s = "completed" -> <<"c", "o", "m", "p", "l", "e", "t", "e", "d">>
      [] OTHER -> <<>>

LowerChar(c) ==
    CASE c = "B" -> "b" [] c = "D" -> "d" [] c = "E" -> "e" [] c = "I" -> "i"
      [] c = "N" -> "n" [] c = "O" -> "o" [] c = "P" -> "p" [] c = "R" -> "r"
      [] c = "T" -> "t" [] c = "V" -> "v" [] c = "W" -> "w" [] OTHER -> c

\* s.lower(), on the characters of s
Lower(cs) == [i \in 1..Len(cs) |-> LowerChar(cs[i])]

\* sub in s
Contains(sub, cs) ==
    \E i \in 0..(Len(cs) - Len(sub)) : SubSeq(cs, i + 1, i + Len(sub)) = sub

\* any(m in s for m in members)
ContainsAny(members, cs) ==
    \E j \in 1..Len(members) : Contains(Chars(members[j]), cs)

-----------------------------------------------------------------------------
(* The reopen matcher: the loop of find_reopened_bugs_by_jql over one bug *)

from_states == <<"reviewing", "review", "in review", "under review", "done", "closed">>
to_states == <<"todo", "to do", "in progress", "reopened", "request", "backlog", "open">>

\* history.get('created') of a history without the field: None
NoTime == -1

NotReopened ==
    [was_reopened |-> FALSE, reopen_time |-> Absent, reopen_from |-> "",
     reopen_to |-> "", reopen_by |-> ""]

\* the test with the to-state condition left out
ItemMatchesFromOnly(item) ==
    /\ item.field = "status"
    /\ ContainsAny(from_states, Lower(Chars(item.fromString)))

\* field == 'status' and any(.. in from_status ..) and any(.. in to_status ..)
ItemMatches(item) ==
    /\ item.field = "status"
    /\ ContainsAny(from_states, Lower(Chars(item.fromString)))
    /\ ContainsAny(to_states, Lower(Chars(item.toString)))

\* what the loop stores when item j of history h matches
ReopenOf(changelog, h, j) ==
    [was_reopened |-> TRUE,
     reopen_time |-> h.created,
     reopen_from |-> h.items[j].fromString,
     reopen_to |-> h.items[j].toString,
     reopen_by |-> IF h.author = Absent THEN "" ELSE h.author]

\* the scan that keeps the last match instead of stopping at the first
RECURSIVE ScanLast(_, _, _, _)
ScanLast(changelog, i, j, acc) ==
    IF i > Len(changelog) THEN acc
    ELSE IF j > Len(changelog[i].items) THEN ScanLast(changelog, i + 1, 1, acc)
    ELSE IF ItemMatches(changelog[i].items[j])
         THEN ScanLast(changelog, i, j + 1, ReopenOf(changelog, changelog[i], j))
    ELSE ScanLast(changelog, i, j + 1, acc)

\* for history in changelog: for item in history.items: first match breaks both
RECURSIVE Scan(_, _, _)
Scan(changelog, i, j) ==
    IF i > Len(changelog) THEN NotReopened
    ELSE IF j > Len(changelog[i].items) THEN Scan(changelog, i + 1, 1)
    ELSE IF ItemMatches(changelog[i].items[j])
         THEN ReopenOf(changelog, changelog[i], j)
    ELSE Scan(changelog, i, j + 1)

MatchReopenLast(changelog) == ScanLast(changelog, 1, 1, NotReopened)

\* JSON null
Null == "<null>"

\* item.get('fromString', '').lower() and item.get('toString', '').lower() on a
\* null value raise AttributeError: the scan of a changelog raises when it comes
\* to a status change with a null side before it has found a match
RECURSIVE ScanRaises(_, _, _)
ScanRaises(changelog, i, j) ==
    IF i > Len(changelog) THEN FALSE
    ELSE IF j > Len(changelog[i].items) THEN ScanRaises(changelog, i + 1, 1)
    ELSE LET item == changelog[i].items[j]
         IN IF item.field = "status" /\ (item.fromString = Null \/ item.toString = Null)
            THEN TRUE
            ELSE IF ItemMatches(item) THEN FALSE
            ELSE ScanRaises(changelog, i, j + 1)

MatchReopen(changelog) == Scan(changelog, 1, 1)

-----------------------------------------------------------------------------
(* The remote tracker: two issues of one project *)

IssueKeys == {"P-1", "P-2"}
Threads == {"scheduler", "manual"}
Checks == {"new_issues", "status_changes", "comments", "overdue", "upcoming", "bugs"}

IssueType(k) == IF k = "P-1" THEN "Bug" ELSE "Task"
ProjectOf(k) == "P"
Created(k) == 0
\* the due date of an issue, as a day number
DueDay(k) == IF k = "P-2" THEN 0 ELSE -1
HasDue(k) == k = "P-2"
\* the order of a query with a static sort key (created, duedate)
StaticOrder == <<"P-2", "P-1">>

Date(t) == t \div DayMinutes
Max(a, b) == IF a >= b THEN a ELSE b
Min(a, b) == IF a <= b THEN a ELSE b

\* the status of an issue: every issue is created in 'To Do'
StatusOf(h) == IF h = <<>> THEN "To Do" ELSE h[Len(h)].items[1].toString
LastCreated(s) == IF s = <<>> THEN 0 ELSE s[Len(s)].created
Updated(k) == Max(Created(k), Max(LastCreated(hist[k]), LastCreated(comments[k])))

\* JQL: status in ('To Do', 'In Progress')
Actionable(k) == StatusOf(hist[k]) \in {"To Do", "In Progress"}

NumEvents ==
    Len(hist["P-1"]) + Len(hist["P-2"]) + Len(comments["P-1"]) + Len(comments["P-2"])

MoveFirst(order, k) == <<k>> \o SelectSeq(order, LAMBDA x : x # k)

-----------------------------------------------------------------------------
(* The queries of the detectors, as the remote tracker evaluates them *)

\* a comparison that lets the day itself through
DueNotAfter(duedate, today) == duedate <= today

\* JQL: duedate < "{today}"
DueBefore(duedate, today) == duedate < today

\* the issues a detector's JQL selects; t0 is the time the JQL was built at, a
\* date without a time stands for its midnight
Selected(c, p, t0, days, k) ==
    CASE c = "new_issues" ->
            Created(k) >= t0 - HourMinutes /\ ProjectOf(k) \in p /\ Actionable(k)
      [] c \in {"status_changes", "comments"} ->
            Updated(k) >= t0 - HourMinutes /\ ProjectOf(k) \in p /\ Actionable(k)
      [] c = "overdue" ->
            HasDue(k) /\ DueBefore(DueDay(k), Date(t0)) /\ Actionable(k) /\ ProjectOf(k) \in p
      [] c = "upcoming" ->
            /\ HasDue(k) /\ DueDay(k) >= Date(t0) /\ DueDay(k) <= Date(t0) + days
            /\ Actionable(k) /\ ProjectOf(k) \in p
      [] c = "bugs" ->
            /\ ProjectOf(k) \in p /\ IssueType(k) = "Bug"
            /\ Updated(k) >= (Date(t0) - 1) * DayMinutes
            /\ Updated(k) <= Date(t0) * DayMinutes

Matching(c, p, t0, days) ==
    SelectSeq(IF c \in {"status_changes", "comments"} THEN recent ELSE StaticOrder,
              LAMBDA k : Selected(c, p, t0, days, k))

\* the fields parameter of each search
FieldsOf(c) ==
    CASE c = "new_issues" -> {"key", "summary", "issuetype", "creator", "priority", "created",
                              "project", "status", "comment", "duedate", "assignee"}
      [] c = "status_changes" -> {"key", "summary", "status", "assignee", "updated", "project"}
      [] c = "comments" -> {"key", "summary", "comment", "project"}
      [] c = "overdue" -> {"key", "summary", "duedate", "assignee", "project"}
      [] c = "upcoming" -> {"key", "summary", "duedate", "assignee", "priority", "project"}
      [] c = "bugs" -> {"key", "summary", "status", "assignee", "reporter", "issuetype",
                        "priority", "created", "updated"}

ExpandOf(c) == c \in {"status_changes", "bugs"}

MaxResultsOf(c) == IF c = "bugs" THEN reopen_max_results ELSE default_max_results

\* use_cache and not ('updated >=' in jql or 'created >=' in jql)
Cacheable(c) == c \in {"overdue", "upcoming"}

\* one issue of a response: only the requested fields are present
Snapshot(c, k) ==
    [key |-> k,
     issuetype |-> IF "issuetype" \in FieldsOf(c) THEN IssueType(k) ELSE Absent,
     comment |-> IF "comment" \in FieldsOf(c) THEN comments[k] ELSE <<>>,
     changelog |-> IF ExpandOf(c) THEN hist[k] ELSE <<>>]

\* one page of the response: the server returns at most cap issues from startAt
Page(c, p, t0, days, start_at, cap) ==
    LET m == Matching(c, p, t0, days)
        n == Min(Min(cap, page_size), Len(m) - Min(start_at, Len(m)))
    IN [issues |-> [i \in 1..n |-> Snapshot(c, m[start_at + i])], total |-> Len(m)]

-----------------------------------------------------------------------------
(* The notification ledger *)

EmptyMap == [x \in {} |-> 0]
Categories == {"bugs", "issues", "comments", "status_changes"}
\* {"bugs": {}, "issues": {}, "comments": {}, "status_changes": {}}
EmptyHistory == [c \in Categories |-> EmptyMap]

was_issue_notified(L, issue_type, issue_key) ==
    IF issue_type \notin DOMAIN L THEN FALSE ELSE issue_key \in DOMAIN L[issue_type]

\* a mark that leaves the table as it is
mark_nothing(L, issue_type, issue_key, reason, t) == L

\* a mark that starts the table of the category afresh
mark_alone(L, issue_type, issue_key, reason, t) ==
    (issue_type :> (issue_key :> [timestamp |-> t, reason |-> reason])) @@ L

\* the in-memory part of mark_issue_notified
mark_issue_notified(L, issue_type, issue_key, reason, t) ==
    LET L1 == IF issue_type \notin DOMAIN L THEN (issue_type :> EmptyMap) @@ L ELSE L
    IN [L1 EXCEPT ![issue_type] =
            (issue_key :> [timestamp |-> t, reason |-> reason]) @@ @]

\* json.dump of a table: the object's members, flattened
json_dump(L) ==
    [members |-> DOMAIN L,
     entries |-> UNION {{<<c, k, L[c][k].timestamp, L[c][k].reason>> : k \in DOMAIN L[c]} :
                        c \in DOMAIN L}]

\* json.load of a text json.dump wrote
json_load(text) ==
    [c \in text.members |->
        [k \in {e[2] : e \in {x \in text.entries : x[1] = c}} |->
            LET e == CHOOSE x \in text.entries : x[1] = c /\ x[2] = k
            IN [timestamp |-> e[3], reason |-> e[4]]]]

\* the history file: missing, unparseable, or the JSON text of a table
NoText == [members |-> {}, entries |-> {}]
NoFile == [state |-> "missing", text |-> NoText]
Corrupt == [state |-> "corrupt", text |-> NoText]

\* a save that writes nothing
SaveNothing(L, f, outcome) == f

\* _save_notification_history: open(.., 'w') truncates, json.dump writes the table;
\* an exception of either is logged and swallowed
_save_notification_history(L, f, outcome) ==
    CASE outcome = "ok" -> [state |-> "json", text |-> json_dump(L)]
      [] outcome = "open_failed" -> f
      [] outcome = "dump_failed" -> Corrupt

\* a load that answers an unreadable file with a table without categories
LoadBare(f) ==
    IF f.state = "json" THEN json_load(f.text) ELSE EmptyMap

\* _load_notification_history
_load_notification_history(f) ==
    IF f.state = "json" THEN json_load(f.text) ELSE EmptyHistory

\* the successes of the sink for the key k of category c, per thread and in all
CountBy(S, c, k, t) == IF k \in DOMAIN S[c] THEN S[c][k][t] ELSE 0
Count(S, c, k) == CountBy(S, c, k, "scheduler") + CountBy(S, c, k, "manual")
CountUp(S, c, k, t) ==
    [S EXCEPT ![c] = (k :> [u \in {"scheduler", "manual"} |->
                               CountBy(S, c, k, u) + (IF u = t THEN 1 ELSE 0)]) @@ @]

-----------------------------------------------------------------------------
(* The detectors, on the issues a search returned *)

Event(cat, key, reason, k, t) ==
    [cat |-> cat, key |-> key, reason |-> reason, issue |-> k, reopen_time |-> t]

\* a detector that does not consult the ledger
EveryIssue(all_issues, L) == all_issues

\* [issue for issue in issues if not was_issue_notified('issues', issue.get('key'))]
UnnotifiedIssues(all_issues, L) ==
    SelectSeq(all_issues, LAMBDA i : ~was_issue_notified(L, "issues", <<i.key>>))

\* the hour window of find_status_changes: older changes are skipped
InWindow(created) == ~(now - created > HourMinutes)

\* to_status in ['to do', 'todo', 'in progress']
ToActionable(item) ==
    /\ item.field = "status"
    /\ Lower(Chars(item.toString)) \in {Chars("to do"), Chars("todo"), Chars("in progress")}

RECURSIVE FirstItem(_, _)
FirstItem(items, j) ==
    IF j > Len(items) THEN 0
    ELSE IF ToActionable(items[j]) THEN j ELSE FirstItem(items, j + 1)

\* the status_changes list find_status_changes attaches to one issue
RECURSIVE StatusChanges(_, _, _, _)
StatusChanges(issue_key, histories, i, L) ==
    IF i > Len(histories) THEN <<>>
    ELSE LET h == histories[i]
             j == FirstItem(h.items, 1)
             rest == StatusChanges(issue_key, histories, i + 1, L)
         IN IF was_issue_notified(L, "status_changes", <<issue_key, h.id>>) THEN rest
            ELSE IF h.created # NoTime /\ ~InWindow(h.created) THEN rest
            ELSE IF j = 0 THEN rest
            ELSE <<[history_id |-> h.id, from_status |-> h.items[j].fromString,
                    to_status |-> h.items[j].toString, updated_by |-> h.author]>> \o rest

\* `issue not in issues_with_changes`, tested when the first change was attached
AlreadyListed(acc, snap, changes) ==
    \E e \in 1..Len(acc) :
        acc[e].snap = snap /\ acc[e].status_changes = <<changes[1]>>

RECURSIVE find_status_changes(_, _, _, _)
find_status_changes(all_issues, i, acc, L) ==
    IF i > Len(all_issues) THEN acc
    ELSE LET snap == all_issues[i]
             changes == StatusChanges(snap.key, snap.changelog, 1, L)
         IN IF changes = <<>> \/ AlreadyListed(acc, snap, changes)
            THEN find_status_changes(all_issues, i + 1, acc, L)
            ELSE find_status_changes(all_issues, i + 1,
                    Append(acc, [snap |-> snap, status_changes |-> changes]), L)

\* the new_comments list find_new_comments attaches to one issue
NewComments(snap, L) ==
    SelectSeq(snap.comment,
              LAMBDA cm : /\ ~was_issue_notified(L, "comments", <<snap.key, cm.id>>)
                          /\ now - cm.created <= HourMinutes)

RECURSIVE find_new_comments(_, _, _)
find_new_comments(all_issues, i, L) ==
    IF i > Len(all_issues) THEN <<>>
    ELSE LET snap == all_issues[i]
             new == NewComments(snap, L)
             rest == find_new_comments(all_issues, i + 1, L)
         IN IF new = <<>> THEN rest
            ELSE <<[snap |-> snap, new_comments |-> new]>> \o rest

\* find_reopened_bugs_by_jql after the search: the bugs the matcher reports
RECURSIVE ReopenedBugs(_, _)
ReopenedBugs(all_bugs, i) ==
    IF i > Len(all_bugs) THEN <<>>
    ELSE LET r == MatchReopen(all_bugs[i].changelog)
             rest == ReopenedBugs(all_bugs, i + 1)
         IN IF r.was_reopened
            THEN <<Event("bugs", <<all_bugs[i].key, "reopen", r.reopen_time>>,
                         "reopened", all_bugs[i].key, r.reopen_time)>> \o rest
            ELSE rest

\* find_reopened_bugs_by_jql after the search: the loop over the bugs runs inside
\* one try block whose handler returns []
find_reopened_bugs_by_jql(all_bugs) ==
    IF \E i \in 1..Len(all_bugs) : ScanRaises(all_bugs[i].changelog, 1, 1)
    THEN <<>>
    ELSE ReopenedBugs(all_bugs, 1)

-----------------------------------------------------------------------------
(* The TTL cache *)

default_cache_time == 30

\* a key that does not tell the days apart
UndatedKey(c, t0, days) == <<c, 0, days>>

\* the JQL of the overdue and the upcoming search holds today's date
CacheKey(c, t0, days) == <<c, Date(t0), days>>

\* _is_cache_valid(cache_key) and cache_key in _issues_cache
_is_cache_valid(cache_key) ==
    cache_key \in DOMAIN cache /\ now < cache[cache_key].expiry

\* expiry=None
NoExpiry == -1

\* _set_cache: time.time() + (expiry or self._default_cache_time); None and 0 are
\* both false.  set_at and ttl are history: the time of the call and the ttl the
\* caller asked for
CacheEntry(data, expiry) ==
    [data |-> data,
     expiry |-> now + (IF expiry = NoExpiry \/ expiry = 0
                       THEN default_cache_time ELSE expiry),
     set_at |-> now,
     ttl |-> IF expiry = NoExpiry THEN default_cache_time ELSE expiry]

_set_cache(cache_key, data, expiry) == (cache_key :> CacheEntry(data, expiry)) @@ cache

-----------------------------------------------------------------------------
(* The dispatchers: what each check_* loop sends *)

\* 'bug' in issue.get('fields', {}).get('issuetype', {}).get('name', '').lower()
IsBugType(snap) == Contains(Chars("bug"), Lower(Chars(snap.issuetype)))

IssueQueue(issues, reason) ==
    [j \in 1..Len(issues) |-> Event("issues", <<issues[j].key>>, reason, issues[j].key, 0)]

RECURSIVE StatusQueue(_, _)
StatusQueue(found, i) ==
    IF i > Len(found) THEN <<>>
    ELSE LET k == found[i].snap.key
             ch == found[i].status_changes
         IN (IF IsBugType(found[i].snap) THEN <<>>
             ELSE [j \in 1..Len(ch) |->
                     Event("status_changes", <<k, ch[j].history_id>>, "status change", k, 0)])
            \o StatusQueue(found, i + 1)

RECURSIVE CommentQueue(_, _)
CommentQueue(found, i) ==
    IF i > Len(found) THEN <<>>
    ELSE LET k == found[i].snap.key
             cm == found[i].new_comments
         IN [j \in 1..Len(cm) |-> Event("comments", <<k, cm[j].id>>, "new comment", k, 0)]
            \o CommentQueue(found, i + 1)

\* the notifications a check attempts for the issues its search returned
DetectQueue(c, result, L) ==
    CASE c = "new_issues" -> IssueQueue(UnnotifiedIssues(result, L), "new issue")
      [] c = "overdue" -> IssueQueue(UnnotifiedIssues(result, L), "overdue")
      [] c = "upcoming" -> IssueQueue(UnnotifiedIssues(result, L), "upcoming deadline")
      [] c = "status_changes" -> StatusQueue(find_status_changes(result, 1, <<>>, L), 1)
      [] c = "comments" -> CommentQueue(find_new_comments(result, 1, L), 1)

-----------------------------------------------------------------------------
(* Check runs *)

IdleRun ==
    [pc |-> "idle", check |-> "none", t0 |-> 0, days |-> 0, proj |-> 0, start_at |-> 0,
     all_issues |-> <<>>, found |-> <<>>, queue |-> <<>>, result |-> FALSE,
     allok |-> TRUE, pure |-> TRUE, n |-> 0]

\* lastClean: the check whose run was the last to end, if that run delivered and
\* marked every notification it attempted, at least one, and the remote state
\* and the clock have not changed since its search began
NoClean == "none"
Note(kind, c) == [kind |-> kind, check |-> c, cached |-> FALSE]
NoNote == Note("", "none")
\* a search of the run r failed after it had fetched r.all_issues
ErrorNote(c, r) ==
    [kind |-> "error", check |-> c, cached |-> FALSE, discarded |-> Len(r.all_issues)]

Range(q) == {q[i] : i \in 1..Len(q)}
AllIdle == \A t \in Threads : runs[t].pc = "idle"

\* the run of thread t goes on with the notifications q, or ends when there are none
Continue(t, r, q) ==
    IF q = <<>>
    THEN /\ runs' = [runs EXCEPT ![t] = IdleRun]
         /\ lastClean' = IF r.allok /\ r.pure /\ r.n > 0 THEN r.check ELSE NoClean
    ELSE /\ runs' = [runs EXCEPT ![t] = [r EXCEPT !.pc = "send", !.queue = q]]
         /\ UNCHANGED lastClean

\* search_issues returned `result` (ok: from the remote or the cache, not an error)
SearchDone(t, r, result, ok, fresh) ==
    LET c == r.check
        r1 == [r EXCEPT !.allok = @ /\ ok, !.all_issues = <<>>, !.start_at = 0]
    IN /\ cache' = IF ok /\ fresh /\ Cacheable(c)
                   THEN _set_cache(CacheKey(c, r.t0, r.days), result, overdue_expiry)
                   ELSE cache
       /\ IF c = "bugs"
          THEN LET found == r.found \o find_reopened_bugs_by_jql(result)
               IN IF r.proj < Len(watched)
                  THEN /\ runs' = [runs EXCEPT ![t] =
                                      [r1 EXCEPT !.proj = @ + 1, !.found = found]]
                       /\ note' = NoNote
                       /\ UNCHANGED lastClean
                  ELSE /\ Continue(t, [r1 EXCEPT !.found = <<>>], found)
                       /\ note' = IF ~ok THEN ErrorNote(c, r) ELSE NoNote
          ELSE /\ Continue(t, r1, DetectQueue(c, result, ledger))
               /\ note' = IF ~ok THEN ErrorNote(c, r)
                          ELSE IF lastClean = c
                          THEN [kind |-> "rerun", check |-> c, cached |-> ~fresh]
                          ELSE NoNote

DaysOf(t, c) ==
    IF c # "upcoming" THEN 0 ELSE IF t = "scheduler" THEN scheduled_days ELSE manual_days

\* check_<c>(): the guards, then the detector up to its search
\* a guard that goes on without a watched project
SkipsUnlessUnwatched(c) == c \notin settings \/ ~configured

\* the three early returns of every check: the notification type is disabled,
\* the credentials are not configured, or no project is watched
Skips(c) == c \notin settings \/ ~configured \/ watched = <<>>

StartCheckRun(t, c) ==
    /\ runs[t].pc = "idle"
    /\ LET r == [IdleRun EXCEPT !.pc = "fetch", !.check = c, !.t0 = now,
                                !.days = DaysOf(t, c), !.proj = 1]
           key == CacheKey(c, now, DaysOf(t, c))
       IN IF Skips(c)
          THEN /\ note' = Note("skip", c)
               /\ UNCHANGED <<runs, cache, lastClean>>
          ELSE IF Cacheable(c) /\ _is_cache_valid(key)
          THEN SearchDone(t, r, cache[key].data, TRUE, FALSE)
          ELSE /\ runs' = [runs EXCEPT ![t] = r]
               /\ note' = NoNote
               /\ UNCHANGED <<cache, lastClean>>
    /\ UNCHANGED <<now, configured, settings, watched, hist, comments, recent, ledger,
                   file, sent, saveFailed, marked, boots>>

StartCheck(t, c) == StartCheckRun(t, c) /\ UNCHANGED <<mhist, mres>>

\* a search that hands back the pages it had fetched before the failure
KeepFetchedPages(all_issues) == all_issues

\* search_issues on a non-200 page: logger.error(...); return []
FailedSearch(all_issues) == <<>>

\* the projects the remote tracker has; a JQL that names another one is
\* answered with 400
Projects == {ProjectOf(k) : k \in IssueKeys}

\* a page loop that stops only when the total is reached
StopsAtTotal(issues, all_issues, start_at, total, max_results) ==
    start_at + Len(issues) >= total

\* if len(issues) == 0 or len(all_issues) >= max_results
\*    or start_at + len(issues) >= data.get('total', 0): break
StopsPaging(issues, all_issues, start_at, total, max_results) ==
    \/ Len(issues) = 0
    \/ Len(all_issues) >= max_results
    \/ start_at + Len(issues) >= total

\* one iteration of the page loop of search_issues; `statuses` are the answers
\* the remote may give to a query it can evaluate
FetchPageRun(t, statuses) ==
    /\ runs[t].pc = "fetch"
    /\ \E cap \in 1..MaxPage, status \in statuses \cup {400} :
         LET r == runs[t]
             c == r.check
             p == IF c = "bugs" THEN {watched[r.proj]} ELSE Range(watched)
             resp == Page(c, p, r.t0, r.days, r.start_at, cap)
             all == r.all_issues \o resp.issues
             stop == StopsPaging(resp.issues, all, r.start_at, resp.total, MaxResultsOf(c))
         IN /\ (status = 400) <=> ~(p \subseteq Projects)
            /\ IF status # 200
               THEN SearchDone(t, r, FailedSearch(r.all_issues), FALSE, FALSE)
               ELSE IF stop
               THEN SearchDone(t, r, SubSeq(all, 1, Min(Len(all), MaxResultsOf(c))), TRUE, TRUE)
               ELSE /\ runs' = [runs EXCEPT ![t] =
                                   [r EXCEPT !.all_issues = all,
                                             !.start_at = @ + Len(resp.issues)]]
                    /\ note' = NoNote
                    /\ UNCHANGED <<cache, lastClean>>
    /\ UNCHANGED <<now, configured, settings, watched, hist, comments, recent, ledger,
                      file, sent, saveFailed, marked, boots>>

FetchPageWith(t, statuses) == FetchPageRun(t, statuses) /\ UNCHANGED <<mhist, mres>>

FetchPage(t) == FetchPageWith(t, {200, 500})

\* a window that lets every date through
AnyDate(reopen_date, yesterday, today) == TRUE

\* not (reopen_date_str < yesterday or reopen_date_str > today)
InRange(reopen_date, yesterday, today) == ~(reopen_date < yesterday \/ reopen_date > today)

\* history: the reopen event the dispatcher of check_reopened_bugs skipped, or
\* called the notifier with, in a run that took `today` as its date
ReopenNote(kind, e, today) ==
    [kind |-> kind, check |-> "bugs", cached |-> FALSE, reopen_time |-> e.reopen_time,
     today |-> today]

\* one iteration of a dispatcher's loop up to the call of the notifier
Send(t) ==
    /\ runs[t].pc = "send"
    /\ LET r == runs[t]
           c == r.check
           e == Head(r.queue)
           today == Date(r.t0)
           deliver ==
               \E ok \in BOOLEAN :
                   /\ runs' = [runs EXCEPT ![t] = [r EXCEPT !.pc = "mark", !.result = ok]]
                   /\ sent' = IF ok THEN CountUp(sent, e.cat, e.key, t) ELSE sent
                   /\ note' = NoNote
                   /\ UNCHANGED lastClean
       IN IF c # "bugs" THEN deliver
          ELSE IF \/ e.reopen_time = NoTime
                  \/ ~InRange(Date(e.reopen_time), today - 1, today)
                  \/ was_issue_notified(ledger, "bugs", e.key)
          THEN \* continue
               /\ Continue(t, r, Tail(r.queue))
               /\ note' = ReopenNote("skipped", e, today)
               /\ UNCHANGED sent
          ELSE IF bug_notification_args > bug_notification_params
          THEN \* TypeError: the call passes more positional arguments than the
               \* notifier takes; nothing catches it and the run ends
               /\ runs' = [runs EXCEPT ![t] = IdleRun]
               /\ lastClean' = NoClean
               /\ note' = ReopenNote("raised", e, today)
               /\ UNCHANGED sent
          ELSE deliver
    /\ UNCHANGED <<now, configured, settings, watched, hist, comments, recent, ledger,
                   file, cache, saveFailed, marked, boots, mhist, mres>>

\* a dispatcher that records whatever the notifier returned
ShouldMarkAlways(result) == TRUE

\* `if result:` before jira_api.mark_issue_notified(...)
ShouldMark(result) == result

\* a loop that gives up at the first notification the sink refused
StopOnFailure(queue, result) == IF result THEN Tail(queue) ELSE <<>>

\* `for issue in issues:` has no break: whatever the notifier returned, the loop
\* goes on with the next element
Remaining(queue, result) == Tail(queue)

\* `if result: jira_api.mark_issue_notified(...)`, and the end of the iteration
MarkRun(t, outcomes) ==
    /\ runs[t].pc = "mark"
    /\ \E outcome \in outcomes :
         LET r == runs[t]
             e == Head(r.queue)
             r1 == [r EXCEPT !.allok = @ /\ r.result, !.result = FALSE,
                             !.n = IF r.result THEN @ + 1 ELSE @]
         IN /\ IF ShouldMark(r.result)
               THEN /\ ledger' = mark_issue_notified(ledger, e.cat, e.key, e.reason, now)
                    /\ file' = _save_notification_history(ledger', file, outcome)
                    /\ saveFailed' = (saveFailed \/ outcome # "ok")
                    /\ marked' = marked \cup {<<e.cat, e.key>>}
               ELSE UNCHANGED <<ledger, file, saveFailed, marked>>
            /\ Continue(t, r1, Remaining(r.queue, r.result))
            /\ note' = NoNote
    /\ UNCHANGED <<now, configured, settings, watched, hist, comments, recent, cache,
                   sent, boots>>

Mark(t, outcomes) == MarkRun(t, outcomes) /\ UNCHANGED <<mhist, mres>>

-----------------------------------------------------------------------------
(* The environment: the remote tracker changes, time passes, the process restarts *)

\* a run in progress has seen a remote state that is no longer the current one
Impure == [t \in Threads |->
             IF runs[t].pc = "idle" THEN runs[t] ELSE [runs[t] EXCEPT !.pure = FALSE]]

Flip(status) == IF status = "To Do" THEN "In Review" ELSE "To Do"

\* somebody moves issue k to the other status; the remote reports the change
\* with the timestamp `created`, or with none
TransitionAt(k, budget, created) ==
    /\ Len(hist[k]) < MaxHist
    /\ budget => NumEvents < MaxEvents
    /\ hist' = [hist EXCEPT ![k] =
                  Append(@, [id |-> Len(@) + 1, created |-> created, author |-> "alice",
                             items |-> <<[field |-> "status", fromString |-> StatusOf(@),
                                          toString |-> Flip(StatusOf(@))]>>])]
    /\ recent' = MoveFirst(recent, k)
    /\ runs' = Impure
    /\ lastClean' = NoClean
    /\ note' = NoNote
    /\ UNCHANGED <<now, configured, settings, watched, comments, ledger, file, cache,
                   sent, saveFailed, marked, boots, mhist, mres>>

\* somebody comments on issue k
AddComment(k) ==
    /\ NumEvents < MaxEvents
    /\ comments' = [comments EXCEPT ![k] =
                      Append(@, [id |-> Len(@) + 1, created |-> now, author |-> "bob"])]
    /\ recent' = MoveFirst(recent, k)
    /\ runs' = Impure
    /\ lastClean' = NoClean
    /\ note' = NoNote
    /\ UNCHANGED <<now, configured, settings, watched, hist, ledger, file, cache,
                   sent, saveFailed, marked, boots, mhist, mres>>

Transition(k, budget) == TransitionAt(k, budget, now)

\* the entries of the cache a read can still return at time t: the clock never
\* goes back, so an expired entry is dead until _set_cache overwrites it
Unexpired(C, t) == [k \in {x \in DOMAIN C : t < C[x].expiry} |-> C[k]]

\* a day passes, up to the day maxday
TickTo(maxday) ==
    /\ Date(now) < maxday
    /\ now' = now + DayMinutes
    /\ cache' = Unexpired(cache, now')
    /\ runs' = Impure
    /\ lastClean' = NoClean
    /\ note' = NoNote
    /\ UNCHANGED <<configured, settings, watched, hist, comments, recent, ledger, file,
                   sent, saveFailed, marked, boots, mhist, mres>>

Tick == TickTo(MaxDay)

\* POST /settings/update turns the notification type of check c on or off
UpdateSettings(c) ==
    /\ settings' = IF c \in settings THEN settings \ {c} ELSE settings \cup {c}
    /\ note' = NoNote
    /\ UNCHANGED <<now, configured, watched, hist, comments, recent, ledger, file, cache,
                   runs, sent, lastClean, saveFailed, marked, boots, mhist, mres>>

\* toggle_project_watch on the project P
ToggleWatch ==
    /\ watched' = IF watched = <<>> THEN <<"P">> ELSE <<>>
    /\ note' = NoNote
    /\ UNCHANGED <<now, configured, settings, hist, comments, recent, ledger, file, cache,
                   runs, sent, lastClean, saveFailed, marked, boots, mhist, mres>>

\* the process is stopped and started again: JiraCore.__init__
RestartRun ==
    /\ boots < MaxBoots
    /\ boots' = boots + 1
    /\ ledger' = _load_notification_history(file)
    /\ cache' = EmptyMap
    /\ runs' = [t \in Threads |-> IdleRun]
    /\ lastClean' = NoClean
    /\ note' = Note("restart", "none")
    /\ UNCHANGED <<now, configured, settings, watched, hist, comments, recent, file,
                   sent, saveFailed, marked>>

Restart == RestartRun /\ UNCHANGED <<mhist, mres>>

-----------------------------------------------------------------------------
(* The matcher on its own *)

St(f, t) == [field |-> "status", fromString |-> f, toString |-> t]

MatchItemLists ==
    { <<St("Open", "InReview")>>, <<St("InReview", "Done")>>, <<St("Done", "ToDo")>>,
      <<St("Open", "InProgress")>>, <<St("IN REVIEW", "To Do")>>,
      <<[field |-> "resolution", fromString |-> "Done", toString |-> "ToDo"]>>,
      <<[field |-> "resolution", fromString |-> "Done", toString |-> "ToDo"],
        St("IN REVIEW", "To Do")>>,
      <<St("Done", "ToDo"), St("IN REVIEW", "To Do")>> }

AuthorAt(i) == CASE i % 3 = 1 -> "alice" [] i % 3 = 2 -> "bob" [] OTHER -> Absent

MkHistories(f) ==
    [i \in 1..Len(f) |-> [id |-> i, created |-> i, author |-> AuthorAt(i), items |-> f[i]]]

MatchInputs ==
    {MkHistories(f) : f \in UNION {[1..n -> MatchItemLists] : n \in 0..MaxMatchLen}}

Match ==
    /\ ~mres.done
    /\ mres' = [done |-> TRUE, r |-> MatchReopen(mhist)]
    /\ UNCHANGED <<sysvars, mhist>>

\* the responses of the search for bugs: up to MaxBatch bugs, the changelog of
\* each made of reopens, other status changes and status changes with a null side
BatchInputs ==
    LET lists == { <<St("Done", "ToDo")>>, <<St("Open", "InProgress")>>,
                   <<St(Null, "ToDo")>>, <<St("Done", Null)>> }
        bugs == {MkHistories(f) : f \in UNION {[1..n -> lists] : n \in 0..MaxBatchHist}}
    IN UNION {[1..n -> [key : {"B"}, changelog : bugs]] : n \in 1..MaxBatch}

\* find_reopened_bugs_by_jql on one response
DetectBatch ==
    /\ ~mres.done
    /\ mres' = [done |-> TRUE, r |-> find_reopened_bugs_by_jql(mhist)]
    /\ UNCHANGED <<sysvars, mhist>>

-----------------------------------------------------------------------------
(* The cached read paths on their own.  The clock advances by quarters of an *)
(* hour and an expired entry stays in the dictionaries until it is replaced. *)

\* the read paths that keep their result under a key of their own; the changelog
\* of an issue is read with a fields argument
ReadPaths == {"changelog", "all_projects", "participants", "versions", "active_sprints"}

\* changelog_<issue>_<fields or 'all'>, all_projects, participants_<project>,
\* versions_<project>, active_sprints_<project>
PathKey(p) == <<p, 0, 0>>

\* the paths with a use_cache parameter
HasUseCache(p) == p \in {"changelog", "all_projects", "active_sprints"}

\* the paths that return before the cache is read when the client is not configured
ConfiguredFirst(p) == p \in {"changelog", "participants", "versions"}

\* only get_issue_with_changelog stores under `if use_cache:`
StoresAlways(p) == p # "changelog"

\* the expiry argument of each path's _set_cache, in minutes
ExpiryOf(p) ==
    CASE p = "changelog" -> 15
      [] p = "all_projects" -> NoExpiry
      [] p = "participants" -> 30
      [] p = "versions" -> 15
      [] p = "active_sprints" -> 5

\* get_project_participants reads the project's issues through search_issues
\* with use_cache=True, expiry=1800
ParticipantsSearchKey == <<"participants_search", 0, 0>>

\* the time-windowed queries: their JQL holds 'updated >=' or 'created >='
WindowedKey(key) ==
    key[1] \in {"new_issues", "status_changes", "comments", "bugs", "reopen_bugs"}

\* history of the cache scenarios: a call answered from the cache ("hit"), or a
\* call that found its entry expired and went to the remote ("refetch")
CacheNote(kind, key) ==
    CASE kind = "hit" -> [kind |-> kind, check |-> key[1], cached |-> TRUE, key |-> key]
      [] kind = "fetch" /\ key \in DOMAIN cache ->
            [kind |-> "refetch", check |-> key[1], cached |-> FALSE, key |-> key]
      [] OTHER -> NoNote

\* get_issue_with_changelog, get_all_projects, get_project_participants,
\* get_project_versions, get_active_sprints: one call
CachedRead(p, use_cache, status) ==
    /\ LET key == PathKey(p)
           use == HasUseCache(p) => use_cache
       IN IF ConfiguredFirst(p) /\ ~configured
          THEN note' = CacheNote("error", key) /\ UNCHANGED cache
          ELSE IF use /\ _is_cache_valid(key)
          THEN note' = CacheNote("hit", key) /\ UNCHANGED cache
          ELSE IF ~configured
          THEN note' = CacheNote("error", key) /\ UNCHANGED cache
          ELSE IF p = "participants"
          THEN \* a failed search is an empty list of issues, and the list of
               \* participants computed from it is stored all the same
               LET inner == IF _is_cache_valid(ParticipantsSearchKey) \/ status # 200
                            THEN cache
                            ELSE _set_cache(ParticipantsSearchKey, <<>>, 30)
               IN /\ cache' = (key :> CacheEntry(<<>>, ExpiryOf(p))) @@ inner
                  /\ note' = CacheNote("fetch", key)
          ELSE IF status # 200
          THEN note' = CacheNote("error", key) /\ UNCHANGED cache
          ELSE /\ cache' = IF StoresAlways(p) \/ use_cache
                           THEN _set_cache(key, <<>>, ExpiryOf(p)) ELSE cache
               /\ note' = CacheNote("fetch", key)
    /\ UNCHANGED <<now, configured, settings, watched, hist, comments, recent, ledger,
                   file, runs, sent, lastClean, saveFailed, marked, boots, mhist, mres>>

\* the expiry arguments search_issues is called with: none, zero, a quarter of an hour
SearchExpiries == {NoExpiry, 0, overdue_expiry}

\* search_issues(jql, use_cache, expiry) with the JQL of the check c, the whole
\* response in one page
CachedSearch(c, use_cache, expiry, status) ==
    /\ LET key == CacheKey(c, now, 0)
           result == Page(c, Range(watched), now, 0, 0, page_size).issues
       IN IF use_cache /\ Cacheable(c) /\ _is_cache_valid(key)
          THEN note' = CacheNote("hit", key) /\ UNCHANGED cache
          ELSE IF ~configured \/ status # 200
          THEN note' = CacheNote("error", key) /\ UNCHANGED cache
          ELSE /\ cache' = IF use_cache /\ Cacheable(c)
                           THEN _set_cache(key, result, expiry) ELSE cache
               /\ note' = CacheNote("fetch", key)
    /\ UNCHANGED <<now, configured, settings, watched, hist, comments, recent, ledger,
                   file, runs, sent, lastClean, saveFailed, marked, boots, mhist, mres>>

\* reopen_bugs_<project>_<start_date>_<end_date>_<participant>
LegacyReopenKey(t0) == <<"reopen_bugs", Date(t0) - 1, Date(t0)>>

\* jira_api.JiraAPI.find_reopened_bugs_by_jql(project, start_date, end_date) of
\* the legacy module, with yesterday and today as the dates
LegacyFindReopened(status) ==
    /\ LET key == LegacyReopenKey(now)
           all_bugs == IF status = 200
                       THEN Page("bugs", {watched[1]}, now, 0, 0, page_size).issues
                       ELSE <<>>
       IN IF ~configured
          THEN note' = CacheNote("error", key) /\ UNCHANGED cache
          ELSE IF _is_cache_valid(key)
          THEN note' = CacheNote("hit", key) /\ UNCHANGED cache
          ELSE IF all_bugs = <<>>
          THEN /\ cache' = _set_cache(key, <<>>, 1)
               /\ note' = CacheNote(IF status = 200 THEN "fetch" ELSE "error", key)
          ELSE /\ cache' = _set_cache(key, find_reopened_bugs_by_jql(all_bugs), 5)
               /\ note' = CacheNote("fetch", key)
    /\ UNCHANGED <<now, configured, settings, watched, hist, comments, recent, ledger,
                   file, runs, sent, lastClean, saveFailed, marked, boots, mhist, mres>>

\* a quarter of an hour passes
CacheTick ==
    /\ now < MaxCacheTime
    /\ now' = now + overdue_expiry
    /\ note' = NoNote
    /\ UNCHANGED <<configured, settings, watched, hist, comments, recent, ledger, file,
                   cache, runs, sent, lastClean, saveFailed, marked, boots, mhist, mres>>

-----------------------------------------------------------------------------
(* Statistics: get_project_statistics and the two group merges.  A Python    *)
(* dict is the sequence of its items [name, value] in insertion order; an    *)
(* item of a list carries the Python type of the pair, "tuple" or "list".    *)

\* the += of each accumulation: a count, a {total, reopened} pair, or the
\* reopened count of an assignee already present
Add(mode, old, v) ==
    CASE mode = "count" -> old + v
      [] mode = "pair" -> [total |-> old.total + v.total, reopened |-> old.reopened + v.reopened]
      [] mode = "reopened" -> [old EXCEPT !.reopened = @ + 1]

\* if k in d: d[k] += v, else: d[k] = v
Upsert(d, k, v, mode) ==
    IF \E i \in 1..Len(d) : d[i].name = k
    THEN [i \in 1..Len(d) |->
            IF d[i].name = k THEN [d[i] EXCEPT !.value = Add(mode, @, v)] ELSE d[i]]
    ELSE Append(d, [name |-> k, value |-> v])

\* for item in items: upsert
RECURSIVE Merge(_, _, _)
Merge(d, items, mode) ==
    IF items = <<>> THEN d
    ELSE Merge(Upsert(d, Head(items).name, Head(items).value, mode), Tail(items), mode)

\* an order that puts the smaller key first
SortsBeforeAscending(ka, i, kb, j) == ka < kb \/ (ka = kb /\ i < j)

\* sorted(..., key=..., reverse=True) is stable: of two items the one with the
\* greater key comes first, and of two with equal keys the one that came first
SortsBefore(ka, i, kb, j) == ka > kb \/ (ka = kb /\ i < j)

\* sorted([... for name, value in d.items()], key=..., reverse=True) with the
\* key x[1] ("count") or x[1]['total'] ("total"), the items built as pairs of
\* the given Python type
SortedItems(d, type, by) ==
    LET Key(v) == IF by = "total" THEN v.total ELSE v
        pos(i) == Cardinality({j \in 1..Len(d) :
                      SortsBefore(Key(d[j].value), j, Key(d[i].value), i)}) + 1
        at(q) == d[CHOOSE i \in 1..Len(d) : pos(i) = q]
    IN [q \in 1..Len(d) |-> [type |-> type, name |-> at(q).name, value |-> at(q).value]]

Ones(names) == [i \in 1..Len(names) |-> [name |-> names[i], value |-> 1]]

\* issue_type.lower() == 'bug'
IsBug(issue) == Lower(Chars(issue.type)) = Chars("bug")

\* a list of completed statuses that leaves 'resolved' out
completed_unresolved == <<"done", "closed", "completed">>

\* status.lower() in ['done', 'closed', 'resolved', 'completed']
completed_statuses == <<"done", "closed", "resolved", "completed">>

\* the statistics get_project_statistics builds from the issues of its own
\* search (all_issues) and the bugs find_reopened_bugs_by_jql returned
project_statistics(all_issues, reopened_bugs) ==
    LET bugs == SelectSeq(all_issues, IsBug)
        reopener_stats ==
            Merge(<<>>, Ones([i \in 1..Len(reopened_bugs) |-> reopened_bugs[i].reopen_by]),
                  "count")
        totals == Merge(<<>>, Ones([i \in 1..Len(bugs) |-> bugs[i].assignee]), "count")
        assignee_bug_stats ==
            Merge([i \in 1..Len(totals) |->
                     [name |-> totals[i].name,
                      value |-> [total |-> totals[i].value, reopened |-> 0]]],
                  [i \in 1..Len(reopened_bugs) |->
                     [name |-> reopened_bugs[i].assignee,
                      value |-> [total |-> 1, reopened |-> 1]]],
                  "reopened")
    IN [total_issues |-> Len(all_issues),
        completed_tasks_count |->
            Len(SelectSeq(all_issues,
                          LAMBDA x : \E i \in 1..Len(completed_statuses) :
                                        Lower(Chars(x.status)) = Chars(completed_statuses[i]))),
        bugs_count |-> Len(bugs),
        reopened_bugs_count |-> Len(reopened_bugs),
        status_counts |->
            Merge(<<>>, Ones([i \in 1..Len(all_issues) |-> all_issues[i].status]), "count"),
        issue_types |->
            Merge(<<>>, Ones([i \in 1..Len(all_issues) |-> all_issues[i].type]), "count"),
        reopeners |-> SortedItems(reopener_stats, "tuple", "count"),
        assignee_bug_stats |-> SortedItems(assignee_bug_stats, "tuple", "total")]

\* the bugs of a list that were reopened
Reopened(all_bugs) == SelectSeq(all_bugs, LAMBDA b : b.reopen_by # Absent)

\* get_project_statistics when both of its searches see the same issues
get_project_statistics(all_issues) ==
    project_statistics(all_issues, Reopened(SelectSeq(all_issues, IsBug)))

EmptyStats ==
    [total_issues |-> 0, completed_tasks_count |-> 0, reopened_bugs_count |-> 0,
     bugs_count |-> 0, status_counts |-> <<>>, issue_types |-> <<>>,
     reopeners_map |-> <<>>, assignee_bug_stats_map |-> <<>>]

\* the body of the loop over the projects of get_group_statistics and, with
\* multi, of get_multi_group_statistics: the statistics s of one project are
\* added to the accumulated ones; slow says that fetching s took more than 15
\* seconds
Accumulate(acc, s, slow, multi) ==
    LET \* isinstance(item, list) and len(item) == 2
        taken(items) == IF multi THEN SelectSeq(items, LAMBDA it : it.type = "list")
                        ELSE items
    IN IF multi /\ slow
       THEN [acc EXCEPT !.total_issues = @ + s.total_issues]
       ELSE [total_issues |-> acc.total_issues + s.total_issues,
             completed_tasks_count |-> acc.completed_tasks_count + s.completed_tasks_count,
             reopened_bugs_count |-> acc.reopened_bugs_count + s.reopened_bugs_count,
             bugs_count |-> IF multi THEN acc.bugs_count + s.bugs_count ELSE 0,
             status_counts |->
                 IF multi THEN Merge(acc.status_counts, s.status_counts, "count") ELSE <<>>,
             issue_types |->
                 IF multi THEN Merge(acc.issue_types, s.issue_types, "count") ELSE <<>>,
             reopeners_map |-> Merge(acc.reopeners_map, taken(s.reopeners), "count"),
             assignee_bug_stats_map |->
                 Merge(acc.assignee_bug_stats_map, taken(s.assignee_bug_stats), "pair")]

\* the loop over the projects
RECURSIVE MergeProjects(_, _, _, _)
MergeProjects(projects, i, acc, multi) ==
    IF i > Len(projects) THEN acc
    ELSE MergeProjects(projects, i + 1,
                       Accumulate(acc, get_project_statistics(projects[i].issues),
                                  projects[i].slow, multi),
                       multi)

\* the maps are turned into lists sorted by count and by total;
\* get_multi_group_statistics keeps the first 20 of each
Converted(acc, multi) ==
    LET reopeners == SortedItems(acc.reopeners_map, "list", "count")
        assignees == SortedItems(acc.assignee_bug_stats_map, "list", "total")
        top(l) == IF multi /\ Len(l) > 20 THEN SubSeq(l, 1, 20) ELSE l
    IN [total_issues |-> acc.total_issues,
        completed_tasks_count |-> acc.completed_tasks_count,
        reopened_bugs_count |-> acc.reopened_bugs_count,
        bugs_count |-> acc.bugs_count,
        status_counts |-> acc.status_counts,
        issue_types |-> acc.issue_types,
        reopeners |-> top(reopeners),
        assignee_bug_stats |-> top(assignees)]

\* the merged statistics of the projects
Aggregated(projects, multi) == Converted(MergeProjects(projects, 1, EmptyStats, multi), multi)

\* the merge of two statistics: the loop run over the two of them
Combine(a, b, multi) ==
    Converted(Accumulate(Accumulate(EmptyStats, a, FALSE, multi), b, FALSE, multi), multi)

\* the issues of a project, as far as the statistics read them
StatIssues ==
    {[type |-> "Task", status |-> st, assignee |-> "alice", reopen_by |-> Absent] :
        st \in {"To Do", "Done"}}
    \cup [type : {"Bug"}, status : {"To Do"}, assignee : {"alice", "bob"},
          reopen_by : {Absent, "alice", "bob"}]

\* the projects of the requested groups: up to MaxProjects projects that hold up
\* to MaxStatIssues issues between them
StatInputs ==
    LET lists(n) == [1..n -> StatIssues]
        proj(n) == [issues : lists(n), slow : BOOLEAN]
        RECURSIVE groups(_, _)
        groups(k, n) ==
            IF k = 0 THEN {<<>>}
            ELSE UNION {{<<p>> \o g : p \in proj(a), g \in groups(k - 1, n - a)} : a \in 0..n}
    IN UNION {groups(k, MaxStatIssues) : k \in 1..MaxProjects}

\* GET /api/group-statistics/<category> and GET /api/multi-group-statistics
StatisticsRequest(multi) ==
    /\ ~mres.done
    /\ mres' = [done |-> TRUE, multi |-> multi,
                projects |-> [i \in 1..Len(mhist) |->
                                get_project_statistics(mhist[i].issues)],
                merged |-> Aggregated(mhist, multi)]
    /\ UNCHANGED <<sysvars, mhist>>

-----------------------------------------------------------------------------
(* Specifications *)

\* the state after start-up, with the watched projects w
InitConfigured(w, credentials) ==
    /\ now = 0
    /\ configured = credentials
    /\ settings = Checks
    /\ watched = w
    /\ hist = [k \in IssueKeys |-> <<>>]
    /\ comments = [k \in IssueKeys |-> <<>>]
    /\ recent = StaticOrder
    /\ file = NoFile
    /\ ledger = _load_notification_history(file)
    /\ cache = EmptyMap
    /\ runs = [t \in Threads |-> IdleRun]
    /\ sent = [c \in Categories |-> EmptyMap]
    /\ lastClean = NoClean
    /\ note = NoNote
    /\ saveFailed = FALSE
    /\ marked = {}
    /\ boots = 1

InitWatching(w) == InitConfigured(w, TRUE)

InitSystem == InitWatching(<<"P">>)

Init ==
    /\ InitSystem
    /\ mhist = <<>>
    /\ mres = [done |-> TRUE, r |-> NotReopened]

\* the checks run one after another, in one process
Next ==
    \/ \E c \in Checks : AllIdle /\ StartCheck("scheduler", c)
    \/ \E t \in Threads : FetchPage(t)
    \/ \E t \in Threads : Send(t)
    \/ \E t \in Threads : Mark(t, {"ok"})
    \/ \E k \in IssueKeys : Transition(k, TRUE)
    \/ \E k \in IssueKeys : AddComment(k)
    \/ Tick

Spec == Init /\ [][Next]_vars

\* thread t may start the check c next to what the other thread is running
Overlapping(t, c) ==
    \A u \in Threads \ {t} : runs[u].pc = "idle" \/ runs[u].check = c

\* the checks of the history-file scenarios
RestartChecks == {"new_issues", "overdue"}

\* the scheduler's job and the manual request run the same check at the same time
NextConc ==
    \/ \E t \in Threads, c \in Checks : Overlapping(t, c) /\ StartCheck(t, c)
    \/ \E t \in Threads : FetchPage(t)
    \/ \E t \in Threads : Send(t)
    \/ \E t \in Threads : Mark(t, {"ok"})
    \/ Tick

SpecConc == Init /\ [][NextConc]_vars

\* the checks run one after another, a write of the history file may fail, and
\* the process may be started again
NextRestart ==
    \/ \E c \in RestartChecks : AllIdle /\ StartCheck("scheduler", c)
    \/ FetchPage("scheduler")
    \/ Send("scheduler")
    \/ Mark("scheduler", {"ok", "open_failed", "dump_failed"})
    \/ Restart
    \/ Tick

SpecRestart == Init /\ [][NextRestart]_vars

\* the reopened-bug check, run again and again while the bug P-1 changes status
NextReopen ==
    \/ AllIdle /\ StartCheck("scheduler", "bugs")
    \/ FetchPage("scheduler")
    \/ Send("scheduler")
    \/ Transition("P-1", FALSE)
    \/ Tick

SpecReopen == Init /\ [][NextReopen]_vars

\* a project key the remote tracker does not know is watched next to P, and the
\* remote answers every query it can evaluate
InitSiblings ==
    /\ InitWatching(<<"X", "P">>)
    /\ mhist = <<>>
    /\ mres = [done |-> TRUE, r |-> NotReopened]

NextSiblings ==
    \/ \E c \in {"new_issues", "bugs"} : AllIdle /\ StartCheck("scheduler", c)
    \/ FetchPageWith("scheduler", {200})
    \/ Send("scheduler")
    \/ Transition("P-1", FALSE)
    \/ Tick

SpecSiblings == InitSiblings /\ [][NextSiblings]_vars

\* searches page by page while quarters of an hour pass: one query with a time
\* window and one whose result is cached
NextSearch ==
    \/ \E c \in {"new_issues", "upcoming"} : AllIdle /\ StartCheck("scheduler", c)
    \/ FetchPage("scheduler")
    \/ Send("scheduler")
    \/ Mark("scheduler", {"ok"})
    \/ CacheTick

SpecSearch == Init /\ [][NextSearch]_vars

\* the group statistics of every bounded set of projects
InitStats ==
    /\ InitSystem
    /\ mhist \in StatInputs
    /\ mres = [done |-> FALSE, multi |-> FALSE, projects |-> <<>>, merged |-> EmptyStats]

NextStats == \E multi \in BOOLEAN : StatisticsRequest(multi)

SpecStats == InitStats /\ [][NextStats]_vars

\* the reopened-bug detector applied to every bounded batch of bugs
InitBatch ==
    /\ InitSystem
    /\ mhist \in BatchInputs
    /\ mres = [done |-> FALSE, r |-> <<>>]

NextBatch == DetectBatch

SpecBatch == InitBatch /\ [][NextBatch]_vars

\* the cached read paths, called in any order while time passes
NextCache ==
    \/ \E p \in ReadPaths, use_cache \in BOOLEAN, status \in {200, 500} :
           CachedRead(p, use_cache, status)
    \/ \E c \in {"overdue", "new_issues"}, use_cache \in BOOLEAN, expiry \in SearchExpiries,
          status \in {200, 500} : CachedSearch(c, use_cache, expiry, status)
    \/ \E status \in {200, 500} : LegacyFindReopened(status)
    \/ CacheTick

SpecCache == Init /\ [][NextCache]_vars

\* the matcher applied to every bounded changelog
InitMatcher ==
    /\ InitSystem
    /\ mhist \in MatchInputs
    /\ mres = [done |-> FALSE, r |-> NotReopened]

NextMatcher == Match

SpecMatcher == InitMatcher /\ [][NextMatcher]_vars

\* the issues of the projects whose statistics are merged two by two
MergeIssues ==
    {[type |-> "Task", status |-> "Done", assignee |-> "alice", reopen_by |-> Absent]}
    \cup [type : {"Bug"}, status : {"To Do"}, assignee : {"alice"},
          reopen_by : {Absent, "alice", "bob"}]

\* three projects that hold up to MaxMergeIssues issues between them
MergeInputs ==
    LET RECURSIVE groups(_, _)
        groups(k, n) ==
            IF k = 0 THEN {<<>>}
            ELSE UNION {{<<[issues |-> l, slow |-> FALSE]>> \o g :
                            l \in [1..a -> MergeIssues], g \in groups(k - 1, n - a)} :
                        a \in 0..n}
    IN groups(3, MaxMergeIssues)

\* the statistics of three projects merged two by two, from the left and from
\* the right
MergeRequest(multi) ==
    /\ ~mres.done
    /\ LET a == get_project_statistics(mhist[1].issues)
           b == get_project_statistics(mhist[2].issues)
           c == get_project_statistics(mhist[3].issues)
       IN mres' = [done |-> TRUE, multi |-> multi,
                   left |-> Combine(Combine(a, b, multi), c, multi),
                   right |-> Combine(a, Combine(b, c, multi), multi)]
    /\ UNCHANGED <<sysvars, mhist>>

\* the merges of every bounded triple of projects
InitMerge ==
    /\ InitSystem
    /\ mhist \in MergeInputs
    /\ mres = [done |-> FALSE, multi |-> FALSE, left |-> EmptyStats, right |-> EmptyStats]

NextMerge == \E multi \in BOOLEAN : MergeRequest(multi)

SpecMerge == InitMerge /\ [][NextMerge]_vars

\* the loop of get_multi_group_statistics over the selected projects, with its
\* clock in seconds: mhist is the number of project keys of the selected groups
\* and mres the state of the request
limited_project_keys == Min(mhist, project_limit)

FetchSeconds == {1, project_seconds + 1}
WorkSeconds == {0, total_seconds}

\* one round of the loop: start_time is taken, the statistics of the project are
\* fetched in fetch seconds and, unless that took too long or gave nothing, added
\* to the aggregate in work seconds; then the elapsed time is compared
MultiGroupProject ==
    /\ mres.pc = "loop"
    /\ mres.i <= limited_project_keys
    /\ \E fetch \in FetchSeconds, work \in WorkSeconds, ok \in BOOLEAN :
         LET start_time == mres.clock
             fetched == start_time + fetch
             slow == fetched - start_time > project_seconds
             detailed == ~slow /\ ok
             finished == IF detailed THEN fetched + work ELSE fetched
             r == [mres EXCEPT !.clock = finished,
                               !.fetched = @ + 1,
                               !.late = @ \/ start_time - mres.started > total_seconds,
                               !.skipped = IF slow THEN @ + 1 ELSE @,
                               !.empty = IF ~slow /\ ~ok THEN @ + 1 ELSE @]
         IN /\ (slow \/ ~ok) => work = 0
            /\ mres' = IF detailed /\ finished - start_time > total_seconds
                       THEN [r EXCEPT !.pc = "break"]
                       ELSE [r EXCEPT !.i = @ + 1]
    /\ UNCHANGED <<sysvars, mhist>>

\* after the loop: the maps are converted and the response is returned
MultiGroupRespond ==
    /\ \/ mres.pc = "break"
       \/ mres.pc = "loop" /\ mres.i > limited_project_keys
    /\ mres' = [mres EXCEPT !.pc = "done",
                            !.limited = limited_project_keys < mhist,
                            !.processed_count = limited_project_keys]
    /\ UNCHANGED <<sysvars, mhist>>

\* a request for the groups of up to MaxSelected projects
InitBudget ==
    /\ InitSystem
    /\ mhist \in 1..MaxSelected
    /\ mres = [pc |-> "loop", i |-> 1, started |-> 0, clock |-> 0, fetched |-> 0,
               late |-> FALSE, skipped |-> 0, empty |-> 0, limited |-> FALSE,
               processed_count |-> 0]

NextBudget == MultiGroupProject \/ MultiGroupRespond

SpecBudget == InitBudget /\ [][NextBudget]_vars

\* the requests sent to the remote side, one name per kind of call site
RemoteCalls == {"search", "issue", "status", "project", "version", "board", "sprint",
                "field", "webhook"}

\* the timeout= argument of the call, in seconds: only the fetch of a single
\* issue is given one
HasTimeout(call) == call = "issue"

\* the remote calls of an operation, in the order it makes them: a check run, a
\* statistics request, the status transition test, and the project, version,
\* sprint and field fetches
Operations ==
    {<<"search", "webhook">>, <<"search", "search">>, <<"status", "search", "issue">>,
     <<"project">>, <<"version">>, <<"board", "sprint">>, <<"field">>}

\* requests.get / requests.post is called
RemoteRequest ==
    /\ mres.pc = "call"
    /\ mres' = [mres EXCEPT !.pc = "waiting", !.waited = 0]
    /\ UNCHANGED <<sysvars, mhist>>

\* the call returns a response or None and the operation goes on to its next
\* call, or returns
Returned(response) ==
    [mres EXCEPT !.i = @ + 1, !.response = response,
                 !.pc = IF mres.i = Len(mhist) THEN "returned" ELSE "call"]

\* the remote side answers
RemoteAnswer ==
    /\ mres.pc = "waiting"
    /\ mres' = Returned("answer")
    /\ UNCHANGED <<sysvars, mhist>>

\* a second passes without an answer
RemoteSilence ==
    /\ mres.pc = "waiting"
    /\ mres.waited < MaxWait
    /\ HasTimeout(mhist[mres.i]) => mres.waited < issue_timeout
    /\ mres' = [mres EXCEPT !.waited = @ + 1]
    /\ UNCHANGED <<sysvars, mhist>>

\* requests.exceptions.Timeout is raised and caught: the call returns None
RequestTimeout ==
    /\ mres.pc = "waiting"
    /\ HasTimeout(mhist[mres.i])
    /\ mres.waited >= issue_timeout
    /\ mres' = Returned(Null)
    /\ UNCHANGED <<sysvars, mhist>>

\* the operations against a remote side that may stay silent
InitRemote ==
    /\ InitSystem
    /\ mhist \in Operations
    /\ mres = [pc |-> "call", i |-> 1, waited |-> 0, response |-> Null]

NextRemote == RemoteRequest \/ RemoteAnswer \/ RemoteSilence \/ RequestTimeout

\* the process is scheduled and time passes; the remote side owes nothing
SpecRemote ==
    /\ InitRemote /\ [][NextRemote]_vars
    /\ WF_vars(RemoteRequest) /\ WF_vars(RemoteSilence) /\ WF_vars(RequestTimeout)

\* the reopened-bug check over three days, while the bug P-1 changes status and
\* the remote may leave the timestamp out of a change it reports
NextWindow ==
    \/ AllIdle /\ StartCheck("scheduler", "bugs")
    \/ FetchPage("scheduler")
    \/ Send("scheduler")
    \/ \E created \in {now, NoTime} : TransitionAt("P-1", FALSE, created)
    \/ TickTo(MaxWindowDay)

SpecWindow == Init /\ [][NextWindow]_vars

\* the overdue and the upcoming-deadline check, run one after another over the
\* days while the issues change status
NextDeadline ==
    \/ \E c \in {"overdue", "upcoming"} : AllIdle /\ StartCheck("scheduler", c)
    \/ FetchPage("scheduler")
    \/ Send("scheduler")
    \/ Mark("scheduler", {"ok"})
    \/ \E k \in IssueKeys : Transition(k, TRUE)
    \/ Tick

SpecDeadline == Init /\ [][NextDeadline]_vars

\* the issues a search for the statistics of a project returns: up to
\* MaxCountIssues issues, each with a status and a type
CountInputs ==
    LET issues == [type : {"Bug", "Task"}, status : {"To Do", "Done", "Resolved"},
                   assignee : {"alice"}, reopen_by : {Absent}]
    IN UNION {[1..n -> issues] : n \in 0..MaxCountIssues}

\* GET /api/project-statistics/<project_key>
ProjectStatistics ==
    /\ ~mres.done
    /\ mres' = [done |-> TRUE, stats |-> get_project_statistics(mhist)]
    /\ UNCHANGED <<sysvars, mhist>>

\* the statistics of every bounded set of issues
InitCount ==
    /\ InitSystem
    /\ mhist \in CountInputs
    /\ mres = [done |-> FALSE, stats |-> EmptyStats]

NextCount == ProjectStatistics

SpecCount == InitCount /\ [][NextCount]_vars

\* the new-issue and the overdue check of a process started with or without
\* credentials, while notification types and the watched project are switched
\* on and off
InitSkip ==
    /\ \E credentials \in BOOLEAN : InitConfigured(<<"P">>, credentials)
    /\ mhist = <<>>
    /\ mres = [done |-> TRUE, r |-> NotReopened]

SkipChecks == {"new_issues", "overdue"}

NextSkip ==
    \/ \E c \in SkipChecks : AllIdle /\ StartCheck("scheduler", c)
    \/ FetchPage("scheduler")
    \/ Send("scheduler")
    \/ Mark("scheduler", {"ok"})
    \/ \E c \in SkipChecks : UpdateSettings(c)
    \/ ToggleWatch

SpecSkip == InitSkip /\ [][NextSkip]_vars

\* the checks of the refusal scenarios: two that share a ledger category and
\* one with composite keys
RetryChecks == {"new_issues", "comments", "overdue"}

NoFailure == [check |-> "none"]
NoDetection == [check |-> "none"]

\* history: the remote state and the clock a run works on
Snapshot3 == <<now, hist, comments>>

\* history: the notification of the run r the sink has just refused, and
\* whether the remote state and the clock are still those of the run's search
Failure(r) ==
    [check |-> r.check, cat |-> Head(r.queue).cat, key |-> Head(r.queue).key,
     snapshot |-> Snapshot3, pure |-> r.pure]

\* history: the detection that has just ended for check c with the list `queue`,
\* the refusal that was the last one before it, and the ledger it read
Detection(c, queue) ==
    [check |-> c, prior |-> mres.failure, snapshot |-> Snapshot3,
     notified |-> {p \in {<<q.cat, q.key>> : q \in Range(queue)} \cup
                         (IF mres.failure = NoFailure THEN {}
                          ELSE {<<mres.failure.cat, mres.failure.key>>}) :
                      was_issue_notified(ledger, p[1], p[2])},
     queue |-> {<<q.cat, q.key>> : q \in Range(queue)}]

\* history kept next to a step of the run of check c: the detection, when the
\* step ended one without an error of the search and the last refusal was one
\* of the same check
Detecting(t, c) ==
    /\ mhist' = mhist
    /\ mres' = IF runs'[t].pc \in {"send", "idle"} /\ note'.kind \notin {"skip", "error"}
               THEN [mres EXCEPT !.last = IF mres.failure.check = c
                                          THEN Detection(c, runs'[t].queue)
                                          ELSE NoDetection]
               ELSE mres

RetryStart(c) == AllIdle /\ StartCheckRun("scheduler", c) /\ Detecting("scheduler", c)

RetryFetch == FetchPageRun("scheduler", {200, 500}) /\ Detecting("scheduler", runs["scheduler"].check)

\* history kept next to the end of an iteration of the loop: the refusal
RetryMark ==
    /\ MarkRun("scheduler", {"ok"})
    /\ mhist' = mhist
    /\ mres' = IF runs["scheduler"].result THEN mres
               ELSE [mres EXCEPT !.failure = Failure(runs["scheduler"])]

InitRetry ==
    /\ InitSystem
    /\ mhist = <<>>
    /\ mres = [failure |-> NoFailure, last |-> NoDetection]

\* the checks run one after another while the sink may refuse a notification
NextRetry ==
    \/ \E c \in RetryChecks : RetryStart(c)
    \/ RetryFetch
    \/ Send("scheduler")
    \/ RetryMark
    \/ \E k \in IssueKeys : Transition(k, TRUE)
    \/ \E k \in IssueKeys : AddComment(k)
    \/ Tick

SpecRetry == InitRetry /\ [][NextRetry]_vars

\* Python objects and the references held by the cache.  The heap maps an
\* object's identity to its value: the annotations written onto it and, for a
\* participant, its issueCount.  The cache holds identities, `fetched` the value
\* each cached object had when it was stored, and `result` the objects the last
\* request handed to its caller; an object nothing refers to is dropped.  An
\* identity names the read that made the object and its place in the response;
\* the objects of an earlier read of the same name are unreachable by then.
Object(key, count) == [key |-> key, notes |-> {}, issueCount |-> count]

Reachable(H, ids) == [i \in DOMAIN H \cap ids |-> H[i]]

\* response.json(): one new object per element of the response
RECURSIVE Allocate(_, _, _, _)
Allocate(H, values, i, read) ==
    IF i > Len(values) THEN [heap |-> H, ids |-> <<>>]
    ELSE LET id == <<read, i>>
             rest == Allocate((id :> values[i]) @@ H, values, i + 1, read)
         IN [heap |-> rest.heap, ids |-> <<id>> \o rest.ids]

\* issue['status_changes'] = [...], bug['was_reopened'] = True, ...
RECURSIVE Annotate(_, _, _, _)
Annotate(H, ids, i, names) ==
    IF i > Len(ids) THEN H
    ELSE Annotate([H EXCEPT ![ids[i]].notes = @ \cup names], ids, i + 1, names)

\* the keys a detector or its dispatcher writes onto the issues of its search
Annotations(c) ==
    CASE c = "status_changes" -> {"status_changes", "assignee"}
      [] c = "comments" -> {"new_comments"}
      [] c = "bugs" -> {"was_reopened", "reopen_time", "reopen_from", "reopen_to",
                        "reopen_by", "reopen_details"}
      [] OTHER -> {}

\* a cache read that finds the key returns the stored list itself
AliasSearchKey(c) == <<"jql", c>>
AliasParticipantsKey(p) == <<"participants", p>>

\* the objects of a read: those of the cache, or new ones that are stored when
\* the read path stores its result
Read(m, key, stores, values) ==
    IF stores /\ key \in DOMAIN m.cache
    THEN [heap |-> m.heap, cache |-> m.cache, fetched |-> m.fetched, ids |-> m.cache[key]]
    ELSE LET a == Allocate(m.heap, values, 1, key)
         IN [heap |-> a.heap,
             cache |-> IF stores THEN (key :> a.ids) @@ m.cache ELSE m.cache,
             fetched |-> IF stores
                         THEN [i \in Range(a.ids) |-> a.heap[i]] @@ m.fetched
                         ELSE m.fetched,
             ids |-> a.ids]

CachedIds(C) == UNION {Range(C[k]) : k \in DOMAIN C}

\* what is left of the heap when a request has returned `ids`
Returned2(m, op, ids) ==
    [heap |-> Reachable(m.heap, CachedIds(m.cache) \cup Range(ids)),
     cache |-> m.cache,
     fetched |-> Reachable(m.fetched, CachedIds(m.cache)),
     result |-> ids, op |-> op]

AliasDetailKey(k) == <<"changelog", k>>

\* a detector and its dispatcher on the issues of one search; find_status_changes
\* reads the details of an issue through the cache before it writes the
\* assignee onto the issue of its search
AliasDetect(c) ==
    /\ LET values == [i \in 1..Len(StaticOrder) |-> Object(StaticOrder[i], 0)]
           r == Read(mres, AliasSearchKey(c), Cacheable(c), values)
           d == IF c = "status_changes"
                THEN Read(r, AliasDetailKey(StaticOrder[1]), TRUE,
                          <<Object(StaticOrder[1], 0)>>)
                ELSE r
           h == Annotate(d.heap, r.ids, 1, Annotations(c))
       IN mres' = Returned2([d EXCEPT !.heap = h], c, r.ids)
    /\ UNCHANGED <<sysvars, mhist>>

\* the map entry of a participant seen for the first time, if the aggregation
\* kept the object of the project's list
SameObject(id, new) == id

\* participants_map[participant_key] = participant.copy()
CopyOf(id, new) == new

\* for participant in project_stats.get("participants", [])
RECURSIVE SumParticipants(_, _, _, _)
SumParticipants(H, map, ids, i) ==
    IF i > Len(ids) THEN [heap |-> H, map |-> map]
    ELSE LET p == H[ids[i]]
         IN IF p.key \in DOMAIN map
            THEN SumParticipants([H EXCEPT ![map[p.key]].issueCount = @ + p.issueCount],
                                 map, ids, i + 1)
            ELSE LET new == <<<<"copy", p.key>>, 1>>
                     kept == CopyOf(ids[i], new)
                 IN SumParticipants((new :> p) @@ H, (p.key :> kept) @@ map, ids, i + 1)

\* the participants the remote reports for the two projects of a group
GroupProjects == <<"A", "B">>
ParticipantsOf(p) ==
    IF p = "A" THEN <<Object("alice", mhist[1]), Object("bob", 1)>>
    ELSE <<Object("alice", mhist[2])>>

\* get_group_statistics and get_multi_group_statistics: the participants of
\* every project, read through the cache, summed per participant key
RECURSIVE GroupParticipants(_, _, _)
GroupParticipants(m, map, i) ==
    IF i > Len(GroupProjects) THEN [m |-> m, map |-> map]
    ELSE LET r == Read(m, AliasParticipantsKey(GroupProjects[i]), TRUE,
                       ParticipantsOf(GroupProjects[i]))
             s == SumParticipants(r.heap, map, r.ids, 1)
         IN GroupParticipants([r EXCEPT !.heap = s.heap], s.map, i + 1)

AliasGroup ==
    /\ LET g == GroupParticipants(mres, EmptyMap, 1)
           ids == [i \in 1..2 |-> g.map[<<"alice", "bob">>[i]]]
       IN mres' = Returned2(g.m, "group", ids)
    /\ UNCHANGED <<sysvars, mhist>>

\* time passes: an entry of the cache expires
AliasExpire ==
    /\ \E key \in DOMAIN mres.cache :
         mres' = Returned2([mres EXCEPT !.cache = [k \in DOMAIN @ \ {key} |-> @[k]]],
                           "expire", mres.result)
    /\ UNCHANGED <<sysvars, mhist>>

\* the remote tracker changes the issue counts it reports
AliasRemote ==
    /\ \E a, b \in 1..MaxIssueCount : mhist' = <<a, b>>
    /\ mhist' # mhist
    /\ UNCHANGED <<sysvars, mres>>

InitAlias ==
    /\ InitSystem
    /\ mhist = <<1, 1>>
    /\ mres = [heap |-> EmptyMap, cache |-> EmptyMap, fetched |-> EmptyMap,
               result |-> <<>>, op |-> "none"]

\* the detectors that write onto the issues of their search, and one whose
\* search is cached
AliasChecks == {"status_changes", "comments", "bugs", "overdue", "upcoming"}

NextAlias ==
    \/ \E c \in AliasChecks : AliasDetect(c)
    \/ AliasGroup
    \/ AliasExpire
    \/ AliasRemote

SpecAlias == InitAlias /\ [][NextAlias]_vars

\* the status-change check, run again and again over the days while P-1 changes
\* status, the remote may leave the timestamp out of a change it reports, and
\* P-2 goes to review and back
NextChanges ==
    \/ AllIdle /\ StartCheck("scheduler", "status_changes")
    \/ FetchPage("scheduler")
    \/ Send("scheduler")
    \/ Mark("scheduler", {"ok"})
    \/ \E created \in {now, NoTime} : TransitionAt("P-1", FALSE, created)
    \/ Len(hist["P-2"]) < MaxEvents /\ TransitionAt("P-2", FALSE, now)
    \/ Tick

SpecChanges == Init /\ [][NextChanges]_vars

\* search_issues with max_results = mhist against a server that answers every
\* request with any page: any status, any issues, any total
PageResponses == UNION {[1..n -> IssueKeys] : n \in 0..MaxPageLen}

NoSearch ==
    [pc |-> "paging", all_issues |-> <<>>, start_at |-> 0, requests |-> 0,
     received |-> <<>>, result |-> <<>>, ok |-> TRUE]

\* one iteration of `while True:` in search_issues, and what follows the loop
SearchPage ==
    /\ mres.pc = "paging"
    /\ mres.requests <= MaxLimit
    /\ \E status \in {200, 500}, issues \in PageResponses, total \in 0..MaxTotal :
         LET all == mres.all_issues \o issues
             m == [mres EXCEPT !.requests = @ + 1]
         IN mres' =
              IF status # 200
              THEN [m EXCEPT !.pc = "done", !.ok = FALSE,
                             !.result = FailedSearch(mres.all_issues)]
              ELSE IF StopsPaging(issues, all, mres.start_at, total, mhist)
              THEN [m EXCEPT !.pc = "done", !.all_issues = all,
                             !.received = @ \o issues,
                             !.result = SubSeq(all, 1, Min(Len(all), mhist))]
              ELSE [m EXCEPT !.all_issues = all, !.received = @ \o issues,
                             !.start_at = @ + Len(issues)]
    /\ UNCHANGED <<sysvars, mhist>>

InitPages ==
    /\ InitSystem
    /\ mhist \in 1..MaxLimit
    /\ mres = NoSearch

NextPages == SearchPage

\* every request is answered
SpecPages == InitPages /\ [][NextPages]_vars /\ WF_vars(SearchPage)

-----------------------------------------------------------------------------
(* The filters of a group statistics request (SpecFilter) *)

\* a Python value bound to the name 'participant': the text of the query
\* parameter (Null when absent) or a participant dict of a project
Text(v) == [kind |-> "str", value |-> v]

Dict(key) == [kind |-> "dict", value |-> key]

FilterValues == {Null, "alice"}

DateValues == {Null, "2024-01-01"}

\* the participants a project's statistics carry; a dict may lack its key
ParticipantLists ==
    UNION {[1..n -> {Dict(""), Dict("bob")}] : n \in 0..MaxGroupParticipants}

\* 'for participant in project_stats.get("participants", [])' assigns every
\* element to the name; after the loop it holds the last one
ForParticipant(participant, participants) ==
    IF participants = <<>> THEN participant
    ELSE participants[Len(participants)]

\* one iteration of 'for project_key in project_keys': the call, then either
\* 'continue' (no statistics, slow project, exception) or the aggregation
GroupIteration ==
    /\ mres.pc = "loop"
    /\ \E skipped \in BOOLEAN, participants \in ParticipantLists :
         LET i == mres.i
             call == [project |-> i,
                      start_date |-> mres.start_date,
                      end_date |-> mres.end_date,
                      participant |-> mres.participant]
             bound == IF skipped THEN mres.participant
                      ELSE ForParticipant(mres.participant, participants)
         IN mres' = [mres EXCEPT
                       !.calls = Append(@, call),
                       !.participant = bound,
                       !.i = i + 1,
                       !.pc = IF i = mhist.projects THEN "done" ELSE "loop"]
    /\ UNCHANGED <<mhist, sysvars>>

InitFilter ==
    /\ InitSystem
    /\ mhist \in [start_date : DateValues, end_date : DateValues,
                  participant : FilterValues, projects : 1..MaxGroupLen]
    /\ mres = [pc |-> "loop", i |-> 1, calls |-> <<>>,
               start_date |-> mhist.start_date,
               end_date |-> mhist.end_date,
               participant |-> Text(mhist.participant)]

NextFilter == GroupIteration

SpecFilter == InitFilter /\ [][NextFilter]_vars

-----------------------------------------------------------------------------
(* The two searches of get_project_statistics (SpecFetches).  mhist is the   *)
(* project on the server, in the order the server lists it.                  *)

RemoteIssue ==
    [type : {"Bug", "Task"}, status : {"To Do"},
     assignee : {"alice", "bob"}, reopen_by : {Absent, "carol"}]

\* what search_issues returns of the matching issues: all_issues[:max_results]
Fetched(matching, max_results) ==
    SubSeq(matching, 1, Min(Len(matching), max_results))

\* the search of get_project_statistics, max_results=500; with no issue found
\* the statistics are returned empty and the second search is not made
FirstFetch ==
    /\ mres.pc = "first"
    /\ LET all_issues == Fetched(mhist, StatsLimit)
       IN mres' = IF all_issues = <<>>
                  THEN [mres EXCEPT !.pc = "done",
                                    !.stats = project_statistics(<<>>, <<>>)]
                  ELSE [mres EXCEPT !.pc = "second", !.all_issues = all_issues]
    /\ UNCHANGED <<mhist, sysvars>>

\* between the two searches a bug is reassigned or reopened on the server
RemoteChange ==
    /\ mres.pc = "second"
    /\ ~mres.changed
    /\ \E i \in 1..Len(mhist), a \in {"alice", "bob"} :
         /\ IsBug(mhist[i])
         /\ mhist' = [mhist EXCEPT ![i].assignee = a, ![i].reopen_by = "carol"]
         /\ mhist' # mhist
    /\ mres' = [mres EXCEPT !.changed = TRUE]
    /\ UNCHANGED sysvars

\* find_reopened_bugs_by_jql, max_results=200, and the statistics built from
\* the two results
SecondFetch ==
    /\ mres.pc = "second"
    /\ LET all_bugs == Fetched(SelectSeq(mhist, IsBug), BugsLimit)
       IN mres' = [mres EXCEPT
                     !.pc = "done",
                     !.stats = project_statistics(mres.all_issues, Reopened(all_bugs))]
    /\ UNCHANGED <<mhist, sysvars>>

InitFetches ==
    /\ InitSystem
    /\ mhist \in UNION {[1..n -> RemoteIssue] : n \in 0..MaxRemoteIssues}
    /\ mres = [pc |-> "first", changed |-> FALSE, all_issues |-> <<>>,
               stats |-> EmptyStats]

NextFetches == FirstFetch \/ RemoteChange \/ SecondFetch

SpecFetches == InitFetches /\ [][NextFetches]_vars

-----------------------------------------------------------------------------
(* The overdue and the upcoming check around midnight (SpecMidnight).  mres  *)
(* is history: the last check started, when, whether its search was served   *)
(* from the cache, and when the entry it read had been stored.               *)

DeadlineChecks == {"overdue", "upcoming"}

NoStart == [check |-> "none", time |-> 0, hit |-> FALSE, set_at |-> NoTime, today |-> FALSE]

\* the entries of the cache that a search of check c stored today
StoredToday(c) ==
    {k \in DOMAIN cache : k[1] = c /\ Date(cache[k].set_at) = Date(now)}

MidnightStart(c) ==
    /\ StartCheckRun("scheduler", c)
    /\ LET key == CacheKey(c, now, DaysOf("scheduler", c))
           hit == runs'["scheduler"].pc # "fetch" /\ note'.kind # "skip"
       IN mres' = [check |-> c, time |-> now, hit |-> hit,
                   set_at |-> IF hit THEN cache[key].set_at ELSE NoTime,
                   today |-> StoredToday(c) # {}]
    /\ UNCHANGED mhist

\* time passes: first to the evening of day 0, then in steps over midnight
Pass ==
    /\ now < DayMinutes + EveningMinutes
    /\ now' = IF now < DayMinutes - EveningMinutes
              THEN DayMinutes - EveningMinutes ELSE now + StepMinutes
    /\ cache' = Unexpired(cache, now')
    /\ runs' = Impure
    /\ lastClean' = NoClean
    /\ note' = NoNote
    /\ UNCHANGED <<configured, settings, watched, hist, comments, recent, ledger, file,
                   sent, saveFailed, marked, boots, mhist, mres>>

InitMidnight ==
    /\ InitSystem
    /\ mhist = <<>>
    /\ mres = NoStart

NextMidnight ==
    \/ \E c \in DeadlineChecks : AllIdle /\ MidnightStart(c)
    \/ FetchPage("scheduler")
    \/ Send("scheduler")
    \/ Mark("scheduler", {"ok"})
    \/ Transition("P-2", TRUE)
    \/ Pass

SpecMidnight == InitMidnight /\ [][NextMidnight]_vars

-----------------------------------------------------------------------------
(* A start with an unreadable history file (SpecCorrupt).  mres is history:  *)
(* what the last start found in place of the file, and the pairs             *)
(* mark_issue_notified was called with since then.                           *)

NoBoot == [loaded |-> "none", since |-> {}]

\* the <<category, key>> pairs of a table
Pairs(L) == UNION {{<<c, k>> : k \in DOMAIN L[c]} : c \in DOMAIN L}

CorruptRestart ==
    /\ RestartRun
    /\ mres' = [loaded |-> file.state, since |-> {}]
    /\ UNCHANGED mhist

CorruptMark ==
    /\ MarkRun("scheduler", {"ok", "open_failed", "dump_failed"})
    /\ LET r == runs["scheduler"]
           e == Head(r.queue)
       IN mres' = IF ShouldMark(r.result)
                  THEN [mres EXCEPT !.since = @ \cup {<<e.cat, e.key>>}]
                  ELSE mres
    /\ UNCHANGED mhist

InitCorrupt ==
    /\ InitSystem
    /\ mhist = <<>>
    /\ mres = NoBoot

NextCorrupt ==
    \/ \E c \in RestartChecks : AllIdle /\ StartCheck("scheduler", c)
    \/ FetchPage("scheduler")
    \/ Send("scheduler")
    \/ CorruptMark
    \/ CorruptRestart
    \/ Tick

SpecCorrupt == InitCorrupt /\ [][NextCorrupt]_vars

-----------------------------------------------------------------------------
(* Properties of the checks run one after another (Spec) *)

\* C1: in non-overlapping runs of the checks in one process, whatever the remote
\* returns page by page and whatever the sink answers, the sink returns success
\* at most once for each (category, entityKey) pair.
C1_AtMostOnce ==
    \A c \in Categories : \A k \in DOMAIN sent[c] : Count(sent, c, k) <= 1

\* C2: the ledger never holds a record for a pair the sink has not returned success
\* for (no mark before the send, none after a send that returned False), and
\* whenever no check run is in progress it holds a record for exactly the pairs
\* the sink has returned success for.
C2_LedgerIffDelivered ==
    \A c \in Categories :
        /\ DOMAIN ledger[c] \subseteq DOMAIN sent[c]
        /\ AllIdle => DOMAIN ledger[c] = DOMAIN sent[c]

\* a run has delivered and recorded a notification, another delivery has failed
\* and was not recorded, and no run is in progress
C2_Witness ==
    /\ AllIdle
    /\ <<"P-2">> \in DOMAIN ledger["issues"]
    /\ Count(sent, "issues", <<"P-2">>) = 1
    /\ <<"P-1">> \notin DOMAIN ledger["issues"]
    /\ <<"P-1">> \notin DOMAIN sent["issues"]
    /\ ledger["issues"][<<"P-2">>].reason = "new issue"
    /\ now = 0

\* C4: when a run of the new-issue, status-change, new-comment, overdue or
\* upcoming-deadline check has delivered and marked every event it detected, a
\* second run of the same check on the unchanged remote state, with its search
\* answered by the remote or by the cache, detects nothing: it ends at once and
\* the sink is not called.
C4_SecondRunDetectsNothing ==
    (note.kind = "rerun" /\ note.check # "bugs") => AllIdle

\* the second run of the overdue check, answered by the cache, after a first run
\* that delivered and marked the overdue issue
C4_Witness ==
    /\ note.kind = "rerun"
    /\ note.check = "overdue"
    /\ note.cached
    /\ <<"P-2">> \in DOMAIN ledger["issues"]
    /\ ledger["issues"][<<"P-2">>].reason = "overdue"

\* C10: no status-change notification is delivered and no 'status_changes' record
\* is written for an issue of type Bug.
C10_NoBugStatusChange ==
    \A k \in DOMAIN sent["status_changes"] \cup DOMAIN ledger["status_changes"] :
        IssueType(k[1]) # "Bug"

-----------------------------------------------------------------------------
(* Properties of the reopen matcher (SpecMatcher) *)

\* a field change that qualifies as a reopen, as the specification words it
Qualifies(item) ==
    /\ item.field = "status"
    /\ \E f \in Range(from_states) : Contains(Chars(f), Lower(Chars(item.fromString)))
    /\ \E t \in Range(to_states) : Contains(Chars(t), Lower(Chars(item.toString)))

\* the places <<entry, item>> of the qualifying field changes of a changelog
QualifyingAt(changelog) ==
    {ij \in (1..Len(changelog)) \X (1..2) :
        /\ ij[2] <= Len(changelog[ij[1]].items)
        /\ Qualifies(changelog[ij[1]].items[ij[2]])}

Before(a, b) == a[1] < b[1] \/ (a[1] = b[1] /\ a[2] < b[2])

ThreeStepHistory ==
    MkHistories(<< <<St("Open", "InReview")>>, <<St("InReview", "Done")>>,
                   <<St("Done", "ToDo")>> >>)

-----------------------------------------------------------------------------
(* Properties of overlapping runs (SpecConc) *)

\* C3: two overlapping runs of the same check, one of the scheduler's thread and
\* one of the manual request, never both deliver a notification for the same
\* (category, entityKey): the ledger test and the later mark exclude each other
\* per key.
C3_NoDoubleDelivery ==
    \A c \in Categories : \A k \in DOMAIN sent[c] :
        ~(CountBy(sent, c, k, "scheduler") > 0 /\ CountBy(sent, c, k, "manual") > 0)

-----------------------------------------------------------------------------
(* Properties of the history file (SpecRestart) *)

KeysMarked(c) == {p[2] : p \in {q \in marked : q[1] = c}}

\* C6: as long as every write of the history file has succeeded, a JiraCore
\* constructed from the file answers was_issue_notified = true for exactly the
\* pairs that were marked, in this or an earlier process lifetime; the table in
\* the file equals the table in memory after each mark; and the table a restart
\* loads is that table.
C6_LedgerSurvivesRestart ==
    ~saveFailed =>
        /\ \A c \in Categories :
              /\ c \in DOMAIN _load_notification_history(file)
              /\ DOMAIN _load_notification_history(file)[c] = KeysMarked(c)
        /\ marked # {} => file.state = "json"
        /\ file.state = "json" => json_load(file.text) = ledger
        /\ note.kind = "restart" => ledger = _load_notification_history(file)

\* the process has been started again after a mark whose write succeeded, and
\* the new ledger knows the marked pair
C6_Witness ==
    /\ note.kind = "restart"
    /\ boots = 2
    /\ ~saveFailed
    /\ <<"issues", <<"P-2">>>> \in marked
    /\ was_issue_notified(ledger, "issues", <<"P-2">>)
    /\ ledger["issues"][<<"P-2">>].reason = "overdue"

-----------------------------------------------------------------------------
(* Properties of the reopened-bug check (SpecReopen) *)

\* the date of t lies in the lookback window of a run started at t0
InLookback(t, t0) == Date(t) >= Date(t0) - 1 /\ Date(t) <= Date(t0)

\* C5: when the bug P-1 has a review-like to open-like transition at t1 inside the
\* lookback window and no record of it, a run of the reopened-bug check whose
\* search and delivery do not fail ends with the event 'P-1-reopen-t1' delivered
\* once and recorded under 'bugs'.
C5_ReopenDeliveredAndRecorded ==
    [][LET r == runs["scheduler"]
           m == MatchReopen(hist["P-1"])
           key == <<"P-1", "reopen", m.reopen_time>>
       IN (/\ r.check = "bugs" /\ r.pc # "idle" /\ runs'["scheduler"].pc = "idle"
           /\ r.pure /\ r.allok /\ note'.kind # "error"
           /\ m.was_reopened
           /\ InLookback(m.reopen_time, r.t0)
           /\ ~was_issue_notified(ledger, "bugs", key))
          => /\ was_issue_notified(ledger', "bugs", key)
             /\ Count(sent', "bugs", key) = 1]_vars

\* C9: when a bug that was reopened earlier is reopened again at a later time t2
\* inside the lookback window, the events the reopened-bug check detects hold one
\* with the key '<issueKey>-reopen-<t2>'.
C9_SecondReopenEmitted ==
    [][LET r == runs["scheduler"]
           first == MatchReopen(hist["P-1"])
           last == MatchReopenLast(hist["P-1"])
           q == runs'["scheduler"].queue
       IN (/\ r.check = "bugs" /\ r.pc = "fetch" /\ runs'["scheduler"].pc # "fetch"
           /\ r.pure /\ note'.kind # "error"
           /\ first.was_reopened
           /\ last.reopen_time > first.reopen_time
           /\ InLookback(last.reopen_time, r.t0))
          => \E i \in 1..Len(q) : q[i].key = <<"P-1", "reopen", last.reopen_time>>]_vars

-----------------------------------------------------------------------------
(* Properties of the cached read paths (SpecCache) *)

\* C11: no operation keeps in the TTL cache, or answers from it, the result of a
\* time-windowed query (a JQL with 'updated >=' or 'created >='), in the jira
\* package and in the legacy module alike.
C11_WindowedNeverCached ==
    /\ \A key \in DOMAIN cache : ~WindowedKey(key)
    /\ note.kind = "hit" => ~WindowedKey(note.key)

\* C12: a read path answers from the cache only while the clock is strictly
\* before the time its entry was set at plus the ttl the entry was set with.
C12_ServedOnlyBeforeExpiry ==
    note.kind = "hit" => now < cache[note.key].set_at + cache[note.key].ttl

\* C13: an entry stored with a ttl of zero is expired at once: no read finds it
\* valid.
C13_ZeroTtlIsMiss ==
    \A key \in DOMAIN cache : cache[key].ttl = 0 => ~_is_cache_valid(key)

-----------------------------------------------------------------------------
(* Properties of a cycle over several watched projects (SpecSiblings) *)

\* the notifications the detector of check c finds at time t0 in the projects
\* the remote tracker knows
SiblingEvents(c, t0) ==
    LET known == {x \in Range(watched) : x \in Projects}
        issues == Page(c, known, t0, 0, 0, page_size).issues
    IN IF c = "bugs" THEN find_reopened_bugs_by_jql(issues) ELSE DetectQueue(c, issues, ledger)

\* C14: in a cycle over several watched projects where only the queries naming
\* an unknown project fail, every detector still returns the events of the
\* other projects: the notifications the dispatcher goes on with hold them all.
C14_SiblingsStillDetected ==
    [][LET r == runs["scheduler"]
       IN (r.pc = "fetch" /\ r.pure /\ runs'["scheduler"].pc # "fetch")
          => Range(SiblingEvents(r.check, r.t0)) \subseteq Range(runs'["scheduler"].queue)]_vars

-----------------------------------------------------------------------------
(* Properties of the error paths *)

\* C15: no detector and no check_* dispatcher lets an exception escape: no run
\* ends by raising.
C15_NoExceptionEscapes == note.kind # "raised"

\* a bug of a batch is malformed when a status change of its changelog has a
\* null side
Malformed(bug) ==
    \E i \in 1..Len(bug.changelog) : \E j \in 1..Len(bug.changelog[i].items) :
        LET item == bug.changelog[i].items[j]
        IN item.field = "status" /\ (item.fromString = Null \/ item.toString = Null)

\* C16: when a record of a batch is malformed, the reopened-bug detector skips
\* that record only: every well-formed bug of the batch that was reopened is
\* reported, at the time of its first qualifying change.
C16_OnlyMalformedSkipped ==
    mres.done =>
        \A i \in 1..Len(mhist) :
            (~Malformed(mhist[i]) /\ MatchReopen(mhist[i].changelog).was_reopened)
            => \E n \in 1..Len(mres.r) :
                  mres.r[n].reopen_time = MatchReopen(mhist[i].changelog).reopen_time

-----------------------------------------------------------------------------
(* Properties of the group statistics (SpecStats) *)

RECURSIVE SumSeq(_)
SumSeq(s) == IF s = <<>> THEN 0 ELSE Head(s) + SumSeq(Tail(s))

NoPair == [total |-> 0, reopened |-> 0]

\* the value a list of items holds for a name, or `none`
ValueOf(items, name, none) ==
    IF \E i \in 1..Len(items) : items[i].name = name
    THEN items[CHOOSE i \in 1..Len(items) : items[i].name = name].value
    ELSE none

\* a number of the statistics p: the counter f, or what the map or list f holds
\* for the key k, or the part `part` of the pair it holds for k
Num(p, f, k, part) ==
    IF k = "" THEN p[f]
    ELSE IF part = "" THEN ValueOf(p[f], k, 0)
    ELSE ValueOf(p[f], k, NoPair)[part]

\* the sum of that number over the statistics of the projects of S
SumOver(S, f, k, part) ==
    SumSeq([i \in 1..Len(mres.projects) |->
              IF i \in S THEN Num(mres.projects[i], f, k, part) ELSE 0])

StatNames == {"alice", "bob"}

\* C18: in the result of either group aggregation every numeric counter is the
\* sum of that counter over the processed projects, and every status count and
\* issue-type count is the sum of the projects' counts for its key: some set of
\* projects, the processed ones, gives all the sums.
C18_CountersAreSums ==
    mres.done =>
        \E S \in SUBSET (1..Len(mhist)) :
            /\ \A f \in {"total_issues", "completed_tasks_count", "reopened_bugs_count"} :
                   Num(mres.merged, f, "", "") = SumOver(S, f, "", "")
            /\ mres.multi =>
                 /\ Num(mres.merged, "bugs_count", "", "") = SumOver(S, "bugs_count", "", "")
                 /\ \A st \in {"To Do", "Done"} :
                        Num(mres.merged, "status_counts", st, "") =
                            SumOver(S, "status_counts", st, "")
                 /\ \A ty \in {"Bug", "Task"} :
                        Num(mres.merged, "issue_types", ty, "") =
                            SumOver(S, "issue_types", ty, "")

\* the projects whose statistics the merge loop went through to the end
Processed == {i \in 1..Len(mhist) : ~(mres.multi /\ mhist[i].slow)}

\* C19: in the merged statistics the count of every reopener and the total and
\* reopened numbers of every assignee are the sums of that actor's values in the
\* lists get_project_statistics produced for the processed projects.
C19_ActorsAreSums ==
    mres.done =>
        \A a \in StatNames :
            /\ Num(mres.merged, "reopeners", a, "") = SumOver(Processed, "reopeners", a, "")
            /\ \A part \in {"total", "reopened"} :
                   Num(mres.merged, "assignee_bug_stats", a, part) =
                       SumOver(Processed, "assignee_bug_stats", a, part)

\* the place where a name is first met in a sequence of names; past the end when
\* it is not met
FirstAt(names, a) ==
    IF \E i \in 1..Len(names) : names[i] = a
    THEN CHOOSE i \in 1..Len(names) : names[i] = a /\ \A j \in 1..(i - 1) : names[j] # a
    ELSE Len(names) + 1

NamesOf(items) == [i \in 1..Len(items) |-> items[i].name]

\* a list is in descending order of its count, or of its total, and items with
\* equal numbers are in the order in which `seen` met their names
OrderedBy(items, seen, by) ==
    LET Key(v) == IF by = "total" THEN v.total ELSE v
    IN \A i, j \in 1..Len(items) :
           i < j => \/ Key(items[i].value) > Key(items[j].value)
                    \/ /\ Key(items[i].value) = Key(items[j].value)
                       /\ FirstAt(seen, items[i].name) < FirstAt(seen, items[j].name)

RECURSIVE Flatten(_)
Flatten(ss) == IF ss = <<>> THEN <<>> ELSE Head(ss) \o Flatten(Tail(ss))

\* C20: in the statistics of a project and in the group merges the reopeners are
\* in descending order of count and the assignees in descending order of total
\* bugs, and actors with equal numbers are in the order in which they were first
\* met while accumulating: in a project the order of its reopened bugs and of
\* its bugs, in a merge the order of the projects' lists one after another.
C20_TopListsOrdered ==
    mres.done =>
        /\ \A i \in 1..Len(mhist) :
             LET bugs == SelectSeq(mhist[i].issues, LAMBDA x : x.type = "Bug")
                 reopened == SelectSeq(bugs, LAMBDA x : x.reopen_by # Absent)
             IN /\ OrderedBy(mres.projects[i].reopeners,
                             [n \in 1..Len(reopened) |-> reopened[n].reopen_by], "count")
                /\ OrderedBy(mres.projects[i].assignee_bug_stats,
                             [n \in 1..Len(bugs) |-> bugs[n].assignee], "total")
        /\ OrderedBy(mres.merged.reopeners,
                     Flatten([i \in 1..Len(mhist) |-> NamesOf(mres.projects[i].reopeners)]),
                     "count")
        /\ OrderedBy(mres.merged.assignee_bug_stats,
                     Flatten([i \in 1..Len(mhist) |->
                                NamesOf(mres.projects[i].assignee_bug_stats)]),
                     "total")

\* a group merge whose two reopeners have one reopen each, bob met first, and
\* whose assignee with more bugs was met second
C20_Witness ==
    /\ mres.done /\ ~mres.multi
    /\ NamesOf(mres.merged.reopeners) = <<"bob", "alice">>
    /\ mres.merged.reopeners[1].value = mres.merged.reopeners[2].value
    /\ NamesOf(mres.merged.assignee_bug_stats) = <<"bob", "alice">>
    /\ mres.merged.assignee_bug_stats[1].value.total > mres.merged.assignee_bug_stats[2].value.total
    /\ mhist[1].issues # <<>> /\ mhist[1].issues[1].assignee = "alice"

-----------------------------------------------------------------------------
(* Properties of merged statistics (SpecMerge) *)

\* C21: merging statistics is associative: for the statistics a, b, c of any
\* three projects, the merge of (the merge of a and b) with c equals the merge
\* of a with (the merge of b and c) in every counter, every map and in the
\* rankings, the order of tied entries included.
C21_MergeAssociative == mres.done => mres.left = mres.right

-----------------------------------------------------------------------------
(* Properties of the multi-group statistics request (SpecBudget) *)

\* C22: once more than the total budget of 30 seconds has elapsed since the
\* start of the request, the statistics of no further project are fetched.
C22_DeadlineEnforced == ~mres.late

\* C23: a response with partial data (a selected project left unprocessed, a
\* project whose detailed statistics were skipped for taking too long, or the
\* selection cut to ten projects) carries limited = true.
C23_PartialIsLimited ==
    mres.pc = "done" /\ (mres.fetched < mhist \/ mres.skipped > 0) => mres.limited

-----------------------------------------------------------------------------
(* Properties of the remote calls (SpecRemote) *)

\* C24: every remote call has a timeout, so an operation that waits for the
\* remote side stops waiting even if the remote side never answers.
C24_NoCallBlocksForever == (mres.pc = "waiting") ~> (mres.pc # "waiting")

-----------------------------------------------------------------------------
(* Properties of the reopen window (SpecWindow) *)

\* C25: check_reopened_bugs hands to the notifier only a matched transition
\* whose timestamp lies between yesterday and today; a matched transition
\* outside that window, or without a timestamp, is skipped, and nothing is
\* delivered or recorded for it.
C25_OnlyInWindow ==
    LET outside(t, today) == t = NoTime \/ Date(t) < today - 1 \/ Date(t) > today
    IN /\ note.kind = "raised" => ~outside(note.reopen_time, note.today)
       /\ \A key \in DOMAIN sent["bugs"] \cup DOMAIN ledger["bugs"] : key[3] # NoTime

C25_Witness ==
    /\ note.kind = "skipped"
    /\ note.reopen_time # NoTime
    /\ Date(note.reopen_time) < note.today - 1
    /\ sent["bugs"] = EmptyMap /\ ledger["bugs"] = EmptyMap

-----------------------------------------------------------------------------
(* Properties of the deadline checks (SpecDeadline) *)

\* C26: the overdue check reports only issues due before today, so an issue due
\* today is not overdue; an actionable issue due yesterday that is not in the
\* ledger is reported by an overdue run whose search succeeds against an
\* unchanged remote; the upcoming check reports only issues due from today to
\* today + days, and no issue satisfies both queries on the same day.
C26_StrictOverdue ==
    /\ [](\A t \in Threads :
            runs[t].pc \in {"send", "mark"} =>
                \A i \in 1..Len(runs[t].queue) :
                    LET due == DueDay(runs[t].queue[i].issue)
                        today == Date(runs[t].t0)
                    IN /\ runs[t].check = "overdue" => due < today
                       /\ runs[t].check = "upcoming" =>
                              due >= today /\ due <= today + runs[t].days)
    /\ [](\A k \in IssueKeys, days \in {manual_days, scheduled_days} :
            ~(/\ Selected("overdue", Range(watched), now, 0, k)
              /\ Selected("upcoming", Range(watched), now, days, k)))
    /\ [][LET r == runs["scheduler"]
          IN /\ r.pc = "fetch" /\ runs'["scheduler"].pc # "fetch"
             /\ r.check = "overdue" /\ r.pure /\ note'.kind # "error"
             => \A k \in IssueKeys :
                  /\ HasDue(k) /\ DueDay(k) = Date(r.t0) - 1 /\ Actionable(k)
                  /\ ProjectOf(k) \in Range(watched)
                  /\ ~was_issue_notified(ledger, "issues", <<k>>)
                  => /\ runs'["scheduler"].pc = "send"
                     /\ \E i \in 1..Len(runs'["scheduler"].queue) :
                          runs'["scheduler"].queue[i].issue = k]_vars

\* an overdue run of day 1 is about to report the issue that was due on day 0
C26_Witness ==
    LET r == runs["scheduler"]
    IN /\ r.pc = "send" /\ r.check = "overdue"
       /\ DueDay(Head(r.queue).issue) = Date(r.t0) - 1

-----------------------------------------------------------------------------
(* Properties of the statistics of one project (SpecCount) *)

-----------------------------------------------------------------------------
(* Properties of a skipped cycle (SpecSkip) *)

\* C28: a check invoked while the credentials are not configured, its
\* notification type is disabled or no project is watched skips the cycle: no
\* search is started, nothing is sent, and the ledger, the history file and
\* the cache stay as they were; a run begins only when none of the three holds.
C28_SkippedCycleChangesNothing ==
    [][/\ note'.kind = "skip" =>
            /\ ~configured \/ note'.check \notin settings \/ watched = <<>>
            /\ UNCHANGED <<runs, sent, ledger, file, cache, marked>>
       /\ \A t \in Threads :
            runs[t].pc = "idle" /\ runs'[t] # runs[t] =>
                configured /\ runs'[t].check \in settings /\ watched # <<>>]_vars

\* a check was skipped for want of a watched project after earlier runs had
\* filled the ledger and the cache
C28_Witness ==
    /\ note.kind = "skip"
    /\ watched = <<>> /\ configured /\ note.check \in settings
    /\ ledger["issues"] # EmptyMap
    /\ cache # EmptyMap

-----------------------------------------------------------------------------
(* Properties of the ledger in one process (SpecConc) *)

\* C29: within a process lifetime no step removes a record of the ledger, so
\* the pairs was_issue_notified answers true for never shrink; a step that
\* changes the ledger adds one record or replaces the timestamp and the reason
\* of one, and leaves every other record as it was.
C29_LedgerNeverShrinks ==
    [][boots' = boots =>
         /\ \A c \in DOMAIN ledger : \A k \in DOMAIN ledger[c] :
                was_issue_notified(ledger, c, k) => was_issue_notified(ledger', c, k)
         /\ ledger' # ledger =>
                \E c \in DOMAIN ledger' : \E k \in DOMAIN ledger'[c] :
                    /\ DOMAIN ledger' = DOMAIN ledger
                    /\ \A c2 \in DOMAIN ledger' :
                           DOMAIN ledger'[c2] =
                               DOMAIN ledger[c2] \cup (IF c2 = c THEN {k} ELSE {})
                    /\ \A c2 \in DOMAIN ledger : \A k2 \in DOMAIN ledger[c2] :
                           <<c2, k2>> # <<c, k>> => ledger'[c2][k2] = ledger[c2][k2]]_vars

\* the record of P-2 was written on day 0 and written again on day 1 by the
\* overlapping run, next to the record of P-1, which still holds what was
\* written on day 0
C29_Witness ==
    /\ Count(sent, "issues", <<"P-2">>) = 2
    /\ was_issue_notified(ledger, "issues", <<"P-2">>)
    /\ ledger["issues"][<<"P-2">>].timestamp = DayMinutes
    /\ was_issue_notified(ledger, "issues", <<"P-1">>)
    /\ ledger["issues"][<<"P-1">>].timestamp = 0

-----------------------------------------------------------------------------
(* Properties of a failed write of the history file (SpecRestart) *)

\* C30: when the write of the history file fails during mark_issue_notified, the
\* caller goes on with its loop, the ledger in memory holds the mark, and it
\* keeps it while the process lives; so a pair is delivered at most once per
\* process lifetime, and a second time only after a crash or restart.
C30_FailedSaveKeepsMark ==
    /\ [][LET r == runs["scheduler"]
              e == Head(r.queue)
          IN /\ r.pc = "mark" /\ r.result /\ runs' # runs
             /\ boots' = boots /\ now' = now
             /\ file' # [state |-> "json", text |-> json_dump(ledger')]
             => /\ was_issue_notified(ledger', e.cat, e.key)
                /\ runs'["scheduler"].pc \in {"send", "idle"}
                /\ runs'["scheduler"].pc = "send" => runs'["scheduler"].queue = Tail(r.queue)
                /\ note'.kind # "raised"]_vars
    /\ [][boots' = boots =>
            \A c \in DOMAIN ledger : \A k \in DOMAIN ledger[c] :
                was_issue_notified(ledger', c, k)]_vars
    /\ [](\A c \in Categories : \A k \in DOMAIN sent[c] : Count(sent, c, k) <= boots)

\* the write of the record of P-2 failed: the file does not hold it, and a day
\* later the ledger of the same process still does, P-2 delivered once
C30_Witness ==
    /\ saveFailed /\ boots = 1 /\ AllIdle
    /\ was_issue_notified(ledger, "issues", <<"P-2">>)
    /\ ~was_issue_notified(_load_notification_history(file), "issues", <<"P-2">>)
    /\ Count(sent, "issues", <<"P-2">>) = 1
    /\ now = DayMinutes

-----------------------------------------------------------------------------
(* Properties of a refused notification (SpecRetry) *)

\* C31: a notification the sink refused is not recorded and is tried again.  The
\* step that ends the iteration of a refused notification leaves the ledger and
\* the history file as they were and goes on with the rest of the list; and a
\* detection of the same check that ends without an error of the search, on the
\* remote state and the clock the refused notification was detected on, lists
\* it again unless its key has been recorded in between.
C31_RefusedIsRetried ==
    /\ [][LET r == runs["scheduler"]
          IN r.pc = "mark" /\ ~r.result /\ runs'["scheduler"].pc # "mark"
             => /\ ledger' = ledger /\ file' = file
                /\ IF Tail(r.queue) = <<>>
                   THEN runs'["scheduler"].pc = "idle"
                   ELSE /\ runs'["scheduler"].pc = "send"
                        /\ runs'["scheduler"].queue = Tail(r.queue)]_vars
    /\ [](LET d == mres.last
              f == d.prior
          IN /\ d # NoDetection
             /\ d.check = f.check
             /\ f.pure /\ d.snapshot = f.snapshot
             /\ <<f.cat, f.key>> \notin d.notified
             => <<f.cat, f.key>> \in d.queue)

\* the sink refused the comment 1 of P-1 and accepted the comment 1 of P-2 in one
\* run, and the next run of the comment check, at the same time and on the same
\* remote state, lists the comment of P-1 alone
C31_Witness ==
    LET d == mres.last
    IN /\ d # NoDetection
       /\ d.check = "comments"
       /\ d.prior.check = "comments"
       /\ d.prior.key = <<"P-1", 1>>
       /\ d.prior.pure /\ d.snapshot = d.prior.snapshot
       /\ d.queue = {<<"comments", <<"P-1", 1>>>>}
       /\ was_issue_notified(ledger, "comments", <<"P-2", 1>>)
       /\ Count(sent, "comments", <<"P-2", 1>>) = 1
       /\ ~was_issue_notified(ledger, "comments", <<"P-1", 1>>)
       /\ runs["scheduler"].pc = "send"

-----------------------------------------------------------------------------
(* Properties of the objects held by the cache (SpecAlias) *)

-----------------------------------------------------------------------------
(* Properties of the status-change detector (SpecChanges) *)

\* the notifications the dispatcher of a running status-change check still has
\* to send, the first being the one it works on
PendingChanges ==
    LET r == runs["scheduler"]
    IN IF r.pc \in {"send", "mark"} /\ r.check = "status_changes" THEN r.queue ELSE <<>>

\* a listed change is a history entry of its issue that holds a status change to
\* 'to do', 'todo' or 'in progress' and, while the clock has not moved since
\* the search, lies inside the hour window or has no timestamp
ListedIsActionable ==
    \A i \in 1..Len(PendingChanges) :
        LET e == PendingChanges[i]
        IN \E n \in 1..Len(hist[e.key[1]]) :
              LET h == hist[e.key[1]][n]
              IN /\ h.id = e.key[2]
                 /\ \E j \in 1..Len(h.items) : ToActionable(h.items[j])
                 /\ now = runs["scheduler"].t0 => h.created = NoTime \/ InWindow(h.created)

\* a change still to be sent is not in the ledger
ListedIsUnnotified ==
    \A i \in 1..Len(PendingChanges) :
        runs["scheduler"].pc = "send" \/ i > 1
        => ~was_issue_notified(ledger, "status_changes", PendingChanges[i].key)

\* no history entry is listed twice
ListedOnce ==
    \A i, j \in 1..Len(PendingChanges) :
        i # j => PendingChanges[i].key # PendingChanges[j].key

\* C33: find_status_changes lists a change only if it is a history entry not yet
\* in the ledger, inside the time window or without a readable timestamp, with a
\* status change to 'to do', 'todo' or 'in progress'; every such entry is listed
\* once and every issue once.
C33_StatusChangesListedOnce ==
    ListedIsActionable /\ ListedIsUnnotified /\ ListedOnce

-----------------------------------------------------------------------------
(* Properties of the page loop (SpecPages) *)

\* C34: search_issues ends whatever pages it is answered with; it sends at most
\* max_results requests and returns at most max_results issues, the first ones
\* in the order received, and an iteration that does not end the loop has added
\* at least one issue.
C34_PagingTerminates ==
    /\ [](/\ mres.requests <= mhist
          /\ Len(mres.result) <= mhist
          /\ mres.pc = "done" /\ mres.ok
             => mres.result = SubSeq(mres.received, 1, Len(mres.result))
                /\ (Len(mres.result) < Len(mres.received) => Len(mres.result) = mhist))
    /\ [][mres'.pc = "paging" => Len(mres'.all_issues) > Len(mres.all_issues)]_vars
    /\ <>(mres.pc = "done")

\* a search with max_results = 3 answered with three pages of one, one and two
\* issues has returned the first three of the four issues it received
C34_Witness ==
    /\ mhist = 3
    /\ mres.pc = "done" /\ mres.ok
    /\ mres.requests = 3
    /\ Len(mres.received) = 4
    /\ mres.result = SubSeq(mres.received, 1, 3)
    /\ mres.received[1] # mres.received[2]

-----------------------------------------------------------------------------
(* Properties of the shared category 'issues' (Spec, SpecConc) *)

IssueChecks == {"new_issues", "overdue", "upcoming"}

\* the list a detector of the category 'issues' hands to its dispatcher holds no
\* issue the ledger has under 'issues'
IssuesExcluded ==
    [][\A t \in Threads :
          /\ runs[t].pc \in {"idle", "fetch"}
          /\ runs'[t].pc = "send"
          /\ runs'[t].check \in IssueChecks
          => \A i \in 1..Len(runs'[t].queue) :
                ~was_issue_notified(ledger, "issues", runs'[t].queue[i].key)]_vars

\* the sink returned success at most once for an issue under 'issues'
IssuesDeliveredOnce ==
    \A k \in IssueKeys : Count(sent, "issues", <<k>>) <= 1

\* C35: new-issue, overdue and upcoming-deadline notifications are recorded
\* under 'issues' with the bare issue key; an issue the ledger holds there is
\* left out by all three detectors, and no second notification of any of the
\* three kinds is delivered for it.
C35_OneNotificationPerIssue == IssuesExcluded /\ []IssuesDeliveredOnce

-----------------------------------------------------------------------------
(* Properties of the filters of a group statistics request (SpecFilter) *)

\* C36: every get_project_statistics call of one group or multi-group request
\* receives the start_date, end_date and participant of the request, whatever
\* the earlier projects of the loop returned.
C36_SameFilters ==
    \A j \in 1..Len(mres.calls) :
        /\ mres.calls[j].start_date = mhist.start_date
        /\ mres.calls[j].end_date = mhist.end_date
        /\ mres.calls[j].participant = Text(mhist.participant)

-----------------------------------------------------------------------------
(* Properties of the two searches of the statistics (SpecFetches) *)

\* every assignee_bug_stats entry has reopened <= total
ReopenedWithinTotal ==
    \A i \in 1..Len(mres.stats.assignee_bug_stats) :
        mres.stats.assignee_bug_stats[i].value.reopened
            <= mres.stats.assignee_bug_stats[i].value.total

\* C37: in the statistics of a project every assignee_bug_stats entry has
\* reopened <= total, and reopened_bugs_count <= bugs_count, for any project on
\* the server, also one larger than the limits of the two searches or one that
\* changes between them.
C37_ReopenedWithinTotals ==
    mres.pc = "done" =>
        /\ ReopenedWithinTotal
        /\ mres.stats.reopened_bugs_count <= mres.stats.bugs_count

-----------------------------------------------------------------------------
(* Properties of the cache around midnight (SpecMidnight) *)

\* C38: an overdue or upcoming-deadline result stored in the cache on one
\* calendar day is not served on a later day: a search served from the cache
\* read an entry stored the same day, and a check that finds no entry of its
\* kind stored today fetches from the remote, also while an entry of the day
\* before has not yet expired.
C38_CacheNotServedNextDay ==
    /\ mres.hit => Date(mres.set_at) = Date(mres.time)
    /\ mres.hit => mres.today

\* on day 1 the overdue check fetched from the remote while the entry its
\* search stored on day 0 was still unexpired
C38_Witness ==
    /\ mres.check = "overdue"
    /\ Date(mres.time) = 1
    /\ ~mres.hit
    /\ runs["scheduler"].pc = "fetch"
    /\ runs["scheduler"].check = "overdue"
    /\ \E k \in DOMAIN cache :
          /\ k[1] = "overdue"
          /\ Date(cache[k].set_at) = 0
          /\ now < cache[k].expiry

-----------------------------------------------------------------------------
(* Properties of a start with an unreadable history file (SpecCorrupt) *)

\* a category the ledger never holds
UnknownCategory == "subtasks"

\* the start goes through with the four empty categories, and every pair known
\* before, under its category or an unknown one, is answered with false
StartsEmpty ==
    [][boots' # boots /\ file.state = "corrupt" =>
          /\ DOMAIN ledger' = Categories
          /\ \A c \in Categories : DOMAIN ledger'[c] = {}
          /\ \A p \in marked \cup Pairs(ledger) :
                /\ ~was_issue_notified(ledger', p[1], p[2])
                /\ ~was_issue_notified(ledger', UnknownCategory, p[2])
          /\ \A t \in Threads : runs'[t].pc = "idle"
          /\ file' = file]_vars

\* after such a start the ledger holds the pairs marked since, and no other
OnlySince ==
    mres.loaded = "corrupt" =>
        /\ DOMAIN ledger = Categories
        /\ Pairs(ledger) = mres.since

\* a write that succeeds after such a start leaves the file with the table of
\* the records made since
RewrittenSince ==
    [][/\ mres.loaded = "corrupt"
       /\ boots' = boots
       /\ file' # file
       /\ file'.state = "json"
       => /\ file'.text.members = Categories
          /\ json_load(file'.text) = ledger'
          /\ Pairs(json_load(file'.text)) = mres'.since]_vars

\* C39: a start that finds the history file unparseable does not fail: the
\* ledger starts with the four categories bugs, issues, comments and
\* status_changes, all empty, was_issue_notified answers false for every key,
\* also under an unknown category, and the next successful mark_issue_notified
\* rewrites the file with only the records made since the start.
C39_CorruptFileStartsEmpty == StartsEmpty /\ []OnlySince /\ RewrittenSince

\* after a start from an unparseable file the file was rewritten with the one
\* record made since, and a pair marked before the start is in it no more
C39_Witness ==
    /\ mres.loaded = "corrupt"
    /\ file.state = "json"
    /\ mres.since # {}
    /\ Pairs(json_load(file.text)) = mres.since
    /\ marked \ mres.since # {}

====
